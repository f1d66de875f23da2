--------------------------- MODULE RunLife_proofs ---------------------------
(***************************************************************************)
(* What one `ql run` keeps for every set of profiles, chains, phases, paths*)
(* and decisions: its types; that the profile is only ever narrowed once it*)
(* has been compared with, recorded or delegated; that the wall demanded is*)
(* there; and that every decision is told to each reader once.             *)
(***************************************************************************)
EXTENDS RunLife, WellFoundedInduction, FiniteSetTheorems, TLAPS

(***************************************************************************)
(* The mutations of a profile.                                             *)
(***************************************************************************)

\* What AtMost compares, axis by axis, and what no mutation changes.
Narrower(p, q) == /\ p.net \subseteq q.net
                  /\ p.open => q.open
                  /\ Covers(p.rw) \subseteq Covers(q.rw)
SameDemand(p, q) == p.enforce = q.enforce /\ p.need = q.need

LEMMA CoversMonotone ==
  ASSUME NEW A \in SUBSET Paths, NEW B \in SUBSET Paths, A \subseteq B
  PROVE  Covers(A) \subseteq Covers(B)
BY DEF Covers

LEMMA CoversIncludes ==
  ASSUME NEW A \in SUBSET Paths
  PROVE  A \subseteq Covers(A) /\ Covers(A) \subseteq Paths
BY ProfilesAssumption DEF Covers

\* A narrower profile of the same openness reaches at most the same.
LEMMA NarrowerAtMost ==
  ASSUME NEW p \in Profile, NEW q \in Profile, Narrower(p, q)
  PROVE  AtMost(p, q)
BY DEF Narrower, AtMost, Reach, Profile

LEMMA NarrowerTransitive ==
  ASSUME NEW p, NEW q, NEW r, Narrower(p, q), Narrower(q, r)
  PROVE  Narrower(p, r)
BY DEF Narrower

LEMMA PrunedNarrower ==
  ASSUME NEW p \in Profile, NEW keep \in Domains
  PROVE  /\ PrunedTo(p, keep) \in Profile
         /\ Narrower(PrunedTo(p, keep), p)
         /\ SameDemand(PrunedTo(p, keep), p)
BY DEF PrunedTo, Narrower, SameDemand, Profile

\* The workspace is granted on both sides of the comparison.
LEMMA WorkspaceNarrower ==
  ASSUME NEW p \in Profile, NEW q \in Profile, Narrower(p, q)
  PROVE  /\ WithWorkspace(p, Workspace) \in Profile
         /\ Narrower(WithWorkspace(p, Workspace), WithWorkspace(q, Workspace))
         /\ SameDemand(WithWorkspace(p, Workspace), p)
<1>1. WithWorkspace(p, Workspace) \in Profile /\ SameDemand(WithWorkspace(p, Workspace), p)
  BY RunAssumption DEF WithWorkspace, SameDemand, Profile
<1>2. Covers(p.rw \cup {Workspace}) \subseteq Covers(q.rw \cup {Workspace})
  BY DEF Covers, Narrower
<1> QED
  BY <1>1, <1>2 DEF WithWorkspace, Narrower, Profile

\* Every grant of a meet lies within a grant of either side.
LEMMA MeetCovered ==
  ASSUME NEW A \in SUBSET Paths, NEW B \in SUBSET Paths
  PROVE  /\ Meet(A, B) \in SUBSET Paths
         /\ Covers(Meet(A, B)) \subseteq Covers(A)
         /\ Covers(Meet(A, B)) \subseteq Covers(B)
<1>1. Meet(A, B) \in SUBSET Paths
  BY DEF Meet
<1>2. ASSUME NEW m \in Meet(A, B)
      PROVE  (\E a \in A : <<m, a>> \in PathIn) /\ (\E b \in B : <<m, b>> \in PathIn)
  BY <1>2, ProfilesAssumption DEF Meet
<1>3. Covers(Meet(A, B)) \subseteq Covers(A)
  BY <1>1, <1>2, ProfilesAssumption DEF Covers
<1>4. Covers(Meet(A, B)) \subseteq Covers(B)
  BY <1>1, <1>2, ProfilesAssumption DEF Covers
<1> QED
  BY <1>1, <1>3, <1>4

LEMMA BoundNarrower ==
  ASSUME NEW p \in Profile, NEW c \in Capability
  PROVE  /\ Bound(p, c) \in Profile
         /\ Narrower(Bound(p, c), p) /\ SameDemand(Bound(p, c), p)
         /\ Bound(p, c).net \subseteq c.net
         /\ Covers(Bound(p, c).rw) \subseteq Covers(c.rw)
<1>1. p.rw \in SUBSET Paths /\ c.rw \in SUBSET Paths
  BY DEF Profile, Capability
<1>2. /\ Meet(p.rw, c.rw) \in SUBSET Paths
      /\ Covers(Meet(p.rw, c.rw)) \subseteq Covers(p.rw)
      /\ Covers(Meet(p.rw, c.rw)) \subseteq Covers(c.rw)
  BY <1>1, MeetCovered
<1>3. /\ Bound(p, c).net = p.net \cap c.net /\ Bound(p, c).rw = Meet(p.rw, c.rw)
      /\ Bound(p, c).open = p.open /\ SameDemand(Bound(p, c), p)
      /\ Bound(p, c) \in Profile
  BY <1>2 DEF Bound, SameDemand, Profile
<1> QED
  BY <1>2, <1>3 DEF Narrower

LEMMA PhaseNarrower ==
  ASSUME NEW p \in Profile, NEW ph \in Phase
  PROVE  /\ Narrow(ph, p) \in Profile
         /\ Narrower(Narrow(ph, p), p) /\ SameDemand(Narrow(ph, p), p)
         /\ Narrow(ph, p).rw \subseteq p.rw
<1>1. Narrow(ph, p) \in Profile
  BY DEF Narrow, Profile, Phase
<1>2. /\ Narrow(ph, p).rw \subseteq p.rw /\ Narrow(ph, p).net \subseteq p.net
      /\ Narrow(ph, p).open => p.open
      /\ SameDemand(Narrow(ph, p), p)
  BY DEF Narrow, SameDemand, Profile, Phase
<1>3. Covers(Narrow(ph, p).rw) \subseteq Covers(p.rw)
  BY <1>2 DEF Covers
<1> QED
  BY <1>1, <1>2, <1>3 DEF Narrower

(***************************************************************************)
(* The steps, and the types.                                               *)
(***************************************************************************)

LEMMA StepCases ==
  ASSUME [Next]_vars
  PROVE  \/ Refuses \/ Load \/ CheckSignature \/ PruneProvider \/ VerifyPins \/ AddWorkspace
         \/ BindToken \/ Register \/ RecordPolicy \/ IssueToken \/ SelectTier \/ EnterPhase
         \/ OpenStream \/ Listen \/ StartAgent \/ AgentDies \/ CellAnswers \/ BuildFails
         \/ (\E c \in Conns : Connect(c) \/ Decide(c) \/ Count(c) \/ NameTarget(c) \/ Stream(c))
         \/ (\E x \in Execs : ExecDecided(x))
         \/ Drain \/ Drained \/ AppendExecs \/ Unlink \/ WriteResult \/ Deregister
         \/ Crash \/ UNCHANGED vars
BY DEF Next, QlStep, Prepare, Conclude, BrokerStep

PolicyTypes == /\ granted \in Profile \cup {None} /\ prof \in Profile \cup {None}
               /\ recorded \in Profile \cup {None}
               /\ cap \in Capability \cup {None} /\ issued \in Capability \cup {None}
               /\ tier \in {"none", "lsm", "notify"}
Places == Before \cup {"cell"} \cup After \cup Ended
MainTypes == /\ pc \in Places /\ opt \in Options
             /\ agent \in {"none", "alive", "dead"}
             /\ answer \in {"none", "error", "refused", "killed", "agent"}
             /\ listed \in BOOLEAN /\ veth \in BOOLEAN
             /\ report \in {"none", "failed", "ran"}
EventTypes == /\ verdict \in [Events -> {"none", "allow", "deny"}]
              /\ target \in [Events -> Targets \cup {None}]
              /\ stage \in [Conns -> {"idle", "decide", "count", "name", "stream", "done"}]
              /\ memory \subseteq Execs
              /\ told \in [Events -> [Readers -> Nat]]
              /\ denied \in Nat /\ named \in [Targets -> Nat] /\ overflow \in Nat

LEMMA TypeParts == TypeOK <=> PolicyTypes /\ MainTypes /\ EventTypes
BY DEF TypeOK, PolicyTypes, MainTypes, EventTypes, Places

LEMMA SubtaskTypes == ASSUME NEW p \in Profile PROVE SubtaskCapability(p) \in Capability
BY DEF SubtaskCapability, Profile, Capability

(***************************************************************************)
(* Where the main thread is, the cell, the link and the report.            *)
(***************************************************************************)

MainInv ==
  /\ MainTypes
  /\ pc \in Before => agent = "none"
  /\ pc \in Before \cup {"cell"} => answer = "none"
  /\ pc \in After \cup {"over"} => agent # "alive"
  /\ answer = "error" => agent = "none"
  /\ pc \in {"result", "render", "over"} => ~veth
  /\ pc \in Before \/ (pc = "cell" /\ agent = "none") => ~veth
  /\ pc \in Before \cup {"cell", "drain", "append", "unlink", "result"} => report = "none"
  /\ report = "failed" => agent = "none"
  /\ pc \in {"render", "over"} /\ opt.json /\ report = "none" => agent = "none" /\ answer = "none"
  /\ pc = "over" /\ listed => agent = "none" /\ answer = "none"

\* A step that only moves the main thread within what comes before the cell.
LEMMA MainBefore ==
  ASSUME MainInv, UNCHANGED <<opt, cellVars, veth, eventVars, report>>, pc \in Before,
         pc' \in Before \cup {"cell", "render"}, listed' \in BOOLEAN
  PROVE  MainInv'
BY DEF MainInv, MainTypes, cellVars, Before, After, Places

\* A step in which neither the main thread nor the cell takes part.
LEMMA MainAside ==
  ASSUME MainInv, UNCHANGED <<pc, opt, cellVars, listed, veth, report>>
  PROVE  MainInv'
BY DEF MainInv, MainTypes, cellVars, Before, After, Places

LEMMA MainInit == Init => MainInv
BY DEF Init, CellInit, MainInv, MainTypes, Before, After, Places

LEMMA MainStep == MainInv /\ [Next]_vars => MainInv'
<1>. SUFFICES ASSUME MainInv, [Next]_vars PROVE MainInv'
  OBVIOUS
<1>1. CASE Refuses
  BY <1>1 DEF Refuses, Quiet, MainInv, MainTypes, cellVars, Before, After, Places, Ended
<1>2. CASE \/ Load \/ CheckSignature \/ PruneProvider \/ VerifyPins \/ AddWorkspace
           \/ BindToken \/ Register \/ RecordPolicy \/ IssueToken \/ SelectTier \/ EnterPhase
           \/ OpenStream \/ Listen
  <2>1. /\ UNCHANGED <<opt, cellVars, veth, eventVars, report>>
        /\ pc \in Before /\ pc' \in Before \cup {"cell", "render"}
    BY <1>2 DEF Load, CheckSignature, PruneProvider, VerifyPins, AddWorkspace, BindToken,
      Register, RecordPolicy, IssueToken, SelectTier, EnterPhase, OpenStream, Listen, Quiet,
      At, Before
  <2>2. listed' = listed \/ listed' = TRUE
    BY <1>2 DEF Load, CheckSignature, PruneProvider, VerifyPins, AddWorkspace, BindToken,
      Register, RecordPolicy, IssueToken, SelectTier, EnterPhase, OpenStream, Listen
  <2> QED
    BY <2>1, <2>2, MainBefore DEF MainInv, MainTypes
<1>3. CASE StartAgent
  <2>1. opt.brokered \in BOOLEAN
    BY RunAssumption DEF MainInv, MainTypes
  <2> QED
    BY <1>3, <2>1 DEF StartAgent, Starts, MainInv, MainTypes, cellVars, Before, After,
      Places
<1>4. CASE AgentDies
  BY <1>4 DEF AgentDies, Dies, MainInv, MainTypes, cellVars, Before, After, Places
<1>5. CASE CellAnswers
  BY <1>5 DEF CellAnswers, Answers, Outcomes, At, MainInv, MainTypes, cellVars, Before, After,
    Places
<1>6. CASE BuildFails
  BY <1>6 DEF BuildFails, At, MainInv, MainTypes, cellVars, Before, After, Places
<1>7. CASE \E c \in Conns : Connect(c) \/ Decide(c) \/ Count(c) \/ NameTarget(c) \/ Stream(c)
  BY <1>7, MainAside DEF Connect, Decide, Count, NameTarget, Stream, Broker, Here, cellVars
<1>8. CASE \E x \in Execs : ExecDecided(x)
  BY <1>8, MainAside DEF ExecDecided, Here, cellVars
<1>9. CASE Drain
  BY <1>9, MainAside DEF Drain, Here, cellVars
<1>10. CASE Drained \/ AppendExecs
  BY <1>10 DEF Drained, AppendExecs, At, Here, MainInv, MainTypes, cellVars, Before, After,
    Places
<1>11. CASE Unlink
  BY <1>11 DEF Unlink, At, MainInv, MainTypes, cellVars, Before, After, Places
<1>12. CASE WriteResult
  BY <1>12 DEF WriteResult, At, MainInv, MainTypes, cellVars, Before, After, Places
<1>13. CASE Deregister
  BY <1>13 DEF Deregister, At, MainInv, MainTypes, cellVars, Before, After, Places, Ended
<1>14. CASE Crash
  BY <1>14 DEF Crash, Here, MainInv, MainTypes, cellVars, Before, After, Places, Ended
<1>15. CASE UNCHANGED vars
  BY <1>15, MainAside DEF vars
<1> QED
  BY StepCases, <1>1, <1>2, <1>3, <1>4, <1>5, <1>6, <1>7, <1>8, <1>9, <1>10, <1>11, <1>12,
    <1>13, <1>14, <1>15

(***************************************************************************)
(* The profile in force, and what it was compared with.                    *)
(***************************************************************************)

Unbound == {"load", "signature", "prune", "pins", "workspace", "bind"}
Unrecorded == Unbound \cup {"register", "record"}
Unissued == Unrecorded \cup {"issue"}
Untiered == Unissued \cup {"tier"}

Walled == /\ prof.enforce => tier # "none"
          /\ prof.need = "content or refuse" => tier # "none"

\* Until a profile is loaded there is nothing; from then on the profile in force
\* is narrower than what was granted, and than what was recorded, delegated and
\* bound once there is such a thing, each of which comes after the last widening.
PolicyInv ==
  /\ PolicyTypes
  /\ prof = None => /\ pc \in {"load"} \cup Ended /\ agent = "none"
                    /\ cap = None /\ recorded = None /\ issued = None
  /\ prof # None => granted # None /\ Narrower(prof, granted) /\ SameDemand(prof, granted)
  /\ pc \in Unbound => cap = None
  /\ pc \in Unrecorded => recorded = None
  /\ pc \in Unissued => issued = None
  /\ cap # None => prof.net \subseteq cap.net /\ Covers(prof.rw) \subseteq Covers(cap.rw)
  /\ recorded # None => Narrower(prof, recorded)
  /\ issued # None => prof.net \subseteq issued.net /\ prof.rw \subseteq issued.rw
  /\ pc \notin Untiered \cup Ended \/ agent # "none" => Walled

LEMMA PolicyInit == Init => PolicyInv
BY DEF Init, CellInit, PolicyInv, PolicyTypes, Ended, Unbound, Unrecorded, Unissued, Untiered

\* Steps that leave the policy alone, and the agent unless it is at the cell.
LEMMA PolicyFrame ==
  ASSUME MainInv, PolicyInv, UNCHANGED policyVars, pc' = pc \/ pc' \in Ended,
         agent' = agent \/ pc = "cell" \/ agent # "none"
  PROVE  PolicyInv'
BY DEF PolicyInv, PolicyTypes, policyVars, MainInv, Before, Ended, Unbound, Unrecorded,
  Unissued, Untiered, Walled

\* A step of the main thread on to the next place, before the cell.
LEMMA PolicyOn ==
  ASSUME MainInv, PolicyInv, UNCHANGED policyVars, UNCHANGED agent,
         \/ pc = "signature" /\ pc' = "prune"
         \/ pc = "pins" /\ pc' = "workspace"
         \/ pc = "register" /\ pc' = "record"
         \/ pc \notin Untiered \cup Ended /\ pc' \notin Untiered
  PROVE  PolicyInv'
BY DEF PolicyInv, PolicyTypes, policyVars, Ended, Unbound, Unrecorded, Unissued, Untiered,
  Walled

\* The profile gets narrower and the rest stays, on the way from p to q.
LEMMA PolicyNarrowed ==
  ASSUME MainInv, PolicyInv, UNCHANGED <<granted, cap, recorded, issued, tier, agent>>,
         prof \in Profile, prof' \in Profile, Narrower(prof', prof), SameDemand(prof', prof),
         prof'.rw \subseteq prof.rw,
         \/ pc = "prune" /\ pc' = "pins"
         \/ pc = "phase" /\ pc' = "verdicts"
  PROVE  PolicyInv'
<1>1. granted # None /\ Narrower(prof', granted) /\ SameDemand(prof', granted) /\ prof' # None
  BY RunAssumption, NarrowerTransitive DEF PolicyInv, SameDemand
<1>2. recorded # None => Narrower(prof', recorded)
  BY NarrowerTransitive DEF PolicyInv
<1>3. cap # None => prof'.net \subseteq cap.net /\ Covers(prof'.rw) \subseteq Covers(cap.rw)
  BY DEF PolicyInv, Narrower
<1>4. issued # None => prof'.net \subseteq issued.net /\ prof'.rw \subseteq issued.rw
  BY DEF PolicyInv, Narrower
<1>5. pc' \notin Untiered \cup Ended \/ agent' # "none" => Walled'
  BY DEF PolicyInv, Walled, SameDemand, Untiered, Unissued, Unrecorded, Unbound, Ended,
    MainInv, Before
<1> QED
  BY <1>1, <1>2, <1>3, <1>4, <1>5 DEF PolicyInv, PolicyTypes, Ended, Unbound, Unrecorded,
    Unissued

LEMMA PolicyStep == MainInv /\ PolicyInv /\ [Next]_vars => PolicyInv'
<1>. SUFFICES ASSUME MainInv, PolicyInv, [Next]_vars PROVE PolicyInv'
  OBVIOUS
<1>a. ASSUME pc \in Before, pc # "load" PROVE prof \in Profile /\ prof # None
  BY <1>a DEF PolicyInv, PolicyTypes, Before, Ended
<1>1. CASE Refuses
  BY <1>1, PolicyFrame DEF Refuses, Quiet, cellVars, Ended
<1>2. CASE Load
  <2>1. /\ prof' \in Profile /\ granted' = prof' /\ pc = "load" /\ pc' = "signature"
        /\ UNCHANGED <<cap, recorded, issued, tier, agent>>
    BY <1>2, RunAssumption DEF Load, At, Quiet, cellVars
  <2>2. prof' # None /\ agent = "none" /\ cap = None /\ recorded = None /\ issued = None
    BY <2>1, RunAssumption DEF PolicyInv, MainInv, Before, Unbound, Unrecorded, Unissued
  <2>3. Narrower(prof', granted') /\ SameDemand(prof', granted')
    BY <2>1 DEF Narrower, SameDemand
  <2> QED
    BY <2>1, <2>2, <2>3 DEF PolicyInv, PolicyTypes, Untiered, Unissued, Unrecorded, Unbound
<1>3. CASE CheckSignature \/ VerifyPins \/ Register
  <2>1. /\ \/ pc = "signature" /\ pc' = "prune"
           \/ pc = "pins" /\ pc' = "workspace"
           \/ pc = "register" /\ pc' = "record"
        /\ UNCHANGED policyVars /\ UNCHANGED agent
    BY <1>3 DEF CheckSignature, VerifyPins, Register, At, Quiet, cellVars
  <2> QED
    BY <2>1, PolicyOn
<1>4. CASE PruneProvider
  <2>0. /\ pc = "prune" /\ pc' = "pins" /\ prof \in Profile
        /\ UNCHANGED <<granted, cap, recorded, issued, tier, agent>>
    BY <1>4, <1>a DEF PruneProvider, At, SamePolicy, Quiet, cellVars, Before
  <2>1. CASE prof' = prof
    <3>1. /\ prof' \in Profile /\ Narrower(prof', prof) /\ SameDemand(prof', prof)
          /\ prof'.rw \subseteq prof.rw
      BY <2>0, <2>1 DEF Narrower, SameDemand
    <3> QED
      BY <2>0, <3>1, PolicyNarrowed
  <2>2. CASE \E keep \in Domains : prof' = PrunedTo(prof, keep)
    <3>1. PICK keep \in Domains : prof' = PrunedTo(prof, keep)
      BY <2>2
    <3>2. prof'.rw = prof.rw
      BY <3>1, <2>0 DEF PrunedTo, Profile
    <3>3. prof' \in Profile /\ Narrower(prof', prof) /\ SameDemand(prof', prof)
      BY <3>1, <2>0, PrunedNarrower
    <3> QED
      BY <2>0, <3>2, <3>3, PolicyNarrowed
  <2> QED
    BY <1>4, <2>1, <2>2 DEF PruneProvider
<1>5. CASE AddWorkspace
  <2>0. /\ pc = "workspace" /\ pc' = "bind" /\ prof \in Profile /\ prof # None
        /\ UNCHANGED <<cap, recorded, issued, tier, agent>>
    BY <1>5, <1>a DEF AddWorkspace, At, Quiet, cellVars, Before
  <2>1. cap = None /\ recorded = None /\ issued = None /\ agent = "none"
    BY <2>0 DEF PolicyInv, MainInv, Before, Unbound, Unrecorded, Unissued
  <2>2. granted \in Profile /\ granted # None /\ Narrower(prof, granted) /\ SameDemand(prof, granted)
    BY <2>0 DEF PolicyInv, PolicyTypes
  <2>3. /\ prof' \in Profile /\ granted' \in Profile
        /\ Narrower(prof', granted') /\ SameDemand(prof', granted')
    <3>1. CASE UNCHANGED <<prof, granted>>
      BY <3>1, <2>0, <2>2
    <3>2. CASE prof' = WithWorkspace(prof, Workspace) /\ granted' = WithWorkspace(granted, Workspace)
      <4>1. /\ prof' \in Profile /\ granted' \in Profile
            /\ SameDemand(prof', prof) /\ SameDemand(granted', granted)
            /\ Narrower(prof', granted')
        <5>1. Narrower(granted, granted)
          BY DEF Narrower
        <5> QED
          BY <3>2, <2>0, <2>2, <5>1, WorkspaceNarrower
      <4> QED
        BY <4>1, <2>2 DEF SameDemand
    <3> QED
      BY <1>5, <3>1, <3>2 DEF AddWorkspace
  <2> QED
    BY <2>0, <2>1, <2>3, RunAssumption DEF PolicyInv, PolicyTypes, Untiered, Unissued, Unrecorded,
      Unbound
<1>6. CASE BindToken
  <2>0. /\ pc = "bind" /\ pc' = "register" /\ prof \in Profile /\ prof # None
        /\ UNCHANGED <<granted, recorded, issued, tier, agent>>
    BY <1>6, <1>a DEF BindToken, At, Quiet, cellVars, Before
  <2>1. recorded = None /\ issued = None /\ agent = "none"
    BY <2>0 DEF PolicyInv, MainInv, Before, Unbound, Unrecorded, Unissued
  <2>2. CASE UNCHANGED <<prof, cap>>
    BY <2>0, <2>1, <2>2 DEF PolicyInv, PolicyTypes, Untiered, Unissued, Unrecorded, Unbound
  <2>3. CASE \E c \in Chains : prof' = Bound(prof, c) /\ cap' = c
    <3>1. PICK c \in Chains : prof' = Bound(prof, c) /\ cap' = c
      BY <2>3
    <3>2. cap' \in Capability
      BY <3>1, RunAssumption
    <3>3. /\ prof' \in Profile /\ Narrower(prof', prof) /\ SameDemand(prof', prof)
          /\ prof'.net \subseteq cap'.net /\ Covers(prof'.rw) \subseteq Covers(cap'.rw)
      BY <3>1, <3>2, <2>0, BoundNarrower
    <3>4. granted # None /\ Narrower(prof', granted) /\ SameDemand(prof', granted)
      BY <3>3, <2>0, NarrowerTransitive DEF PolicyInv, SameDemand
    <3> QED
      BY <2>0, <2>1, <3>2, <3>3, <3>4, RunAssumption DEF PolicyInv, PolicyTypes, Untiered,
        Unissued, Unrecorded, Unbound
  <2> QED
    BY <1>6, <2>2, <2>3 DEF BindToken
<1>7. CASE RecordPolicy
  <2>0. /\ pc = "record" /\ pc' = "issue" /\ prof \in Profile /\ prof # None
        /\ UNCHANGED <<granted, prof, cap, issued, tier, agent>>
        /\ recorded' = prof \/ recorded' = recorded
    BY <1>7, <1>a DEF RecordPolicy, At, Quiet, cellVars, Before
  <2>1. recorded = None /\ issued = None /\ agent = "none"
    BY <2>0 DEF PolicyInv, MainInv, Before, Unbound, Unrecorded, Unissued
  <2>2. Narrower(prof, prof)
    BY DEF Narrower
  <2> QED
    BY <2>0, <2>1, <2>2 DEF PolicyInv, PolicyTypes, Untiered, Unissued, Unrecorded, Unbound
<1>8. CASE IssueToken
  <2>0. /\ pc = "issue" /\ pc' = "tier" /\ prof \in Profile /\ prof # None
        /\ UNCHANGED <<granted, prof, cap, recorded, tier, agent>>
        /\ issued' = SubtaskCapability(prof) \/ issued' = issued
    BY <1>8, <1>a DEF IssueToken, At, Quiet, cellVars, Before
  <2>1. issued = None /\ agent = "none"
    BY <2>0 DEF PolicyInv, MainInv, Before, Unissued, Unrecorded, Unbound
  <2>2. /\ SubtaskCapability(prof) \in Capability
        /\ prof.net \subseteq SubtaskCapability(prof).net
        /\ prof.rw \subseteq SubtaskCapability(prof).rw
    BY <2>0, SubtaskTypes DEF SubtaskCapability
  <2> QED
    BY <2>0, <2>1, <2>2 DEF PolicyInv, PolicyTypes, Untiered, Unissued, Unrecorded, Unbound
<1>9. CASE SelectTier
  <2>0. /\ pc = "tier" /\ pc' = "phase" /\ prof \in Profile /\ prof # None
        /\ UNCHANGED <<granted, prof, cap, recorded, issued, agent>>
        /\ \E lsm, notify \in BOOLEAN : tier' \in Tiers(prof, lsm, notify)
        /\ Qualifies(prof, tier')
    BY <1>9, <1>a DEF SelectTier, At, Quiet, cellVars, Before
  <2>1. tier' \in {"none", "lsm", "notify"} /\ (prof.enforce => tier' # "none")
    BY <2>0 DEF Tiers
  <2>2. Walled'
    BY <2>0, <2>1 DEF Qualifies, Walled
  <2> QED
    BY <2>0, <2>1, <2>2 DEF PolicyInv, PolicyTypes, Untiered, Unissued, Unrecorded, Unbound
<1>10. CASE EnterPhase
  <2>0. /\ pc = "phase" /\ pc' = "verdicts" /\ prof \in Profile
        /\ UNCHANGED <<granted, cap, recorded, issued, tier, agent>>
    BY <1>10, <1>a DEF EnterPhase, At, SamePolicy, Quiet, cellVars, Before
  <2>1. CASE prof' = prof
    BY <2>0, <2>1, PolicyNarrowed DEF Narrower, SameDemand
  <2>2. CASE \E ph \in Phases : prof' = Narrow(ph, prof)
    BY <2>0, <2>2, RunAssumption, PhaseNarrower, PolicyNarrowed
  <2> QED
    BY <1>10, <2>1, <2>2 DEF EnterPhase
<1>11. CASE OpenStream \/ Listen \/ Drained \/ AppendExecs \/ Unlink \/ WriteResult
            \/ Deregister \/ BuildFails
  <2>1. /\ pc \notin Untiered \cup Ended /\ pc' \notin Untiered
        /\ UNCHANGED policyVars /\ UNCHANGED agent
    BY <1>11 DEF OpenStream, Listen, Drained, AppendExecs, Unlink, WriteResult, Deregister,
      BuildFails, At, Quiet, Here, cellVars, Untiered, Unissued, Unrecorded, Unbound, Ended
  <2> QED
    BY <2>1, PolicyOn
<1>12. CASE CellAnswers
  <2>1. /\ pc = "cell" /\ pc' = "drain" /\ UNCHANGED policyVars
    BY <1>12 DEF CellAnswers, At
  <2>2. Walled
    BY <2>1 DEF PolicyInv, Untiered, Unissued, Unrecorded, Unbound, Ended
  <2>3. prof # None
    BY <2>1 DEF PolicyInv, Ended
  <2> QED
    BY <2>1, <2>2, <2>3 DEF PolicyInv, PolicyTypes, policyVars, Walled, Untiered, Unissued,
      Unrecorded, Unbound
<1>13. CASE StartAgent
  BY <1>13, PolicyFrame DEF StartAgent
<1>14. CASE AgentDies
  BY <1>14, PolicyFrame DEF AgentDies, Dies
<1>15. CASE \E c \in Conns : Connect(c) \/ Decide(c) \/ Count(c) \/ NameTarget(c) \/ Stream(c)
  <2>1. UNCHANGED policyVars /\ UNCHANGED pc /\ UNCHANGED agent
    BY <1>15 DEF Connect, Decide, Count, NameTarget, Stream, Broker, Here, cellVars
  <2> QED
    BY <2>1, PolicyFrame
<1>16. CASE \E x \in Execs : ExecDecided(x)
  <2>1. UNCHANGED policyVars /\ UNCHANGED pc /\ UNCHANGED agent
    BY <1>16 DEF ExecDecided, Here, cellVars
  <2> QED
    BY <2>1, PolicyFrame
<1>17. CASE Drain
  BY <1>17, PolicyFrame DEF Drain, Here, cellVars
<1>18. CASE Crash
  BY <1>18, PolicyFrame DEF Crash, Here, cellVars, Ended
<1>19. CASE UNCHANGED vars
  BY <1>19, PolicyFrame DEF vars, cellVars
<1> QED
  BY StepCases, <1>1, <1>2, <1>3, <1>4, <1>5, <1>6, <1>7, <1>8, <1>9, <1>10, <1>11, <1>12,
    <1>13, <1>14, <1>15, <1>16, <1>17, <1>18, <1>19

(***************************************************************************)
(* What each reader has been told of each decision.                        *)
(***************************************************************************)

Undrained == Before \cup {"cell"}
Toldall == {"unlink", "result", "render", "over"}

\* What was told of a request whose broker thread is at stage s.
ConnTold(s, t) ==
  /\ t["audit"] <= 1 /\ t["summary"] <= 1 /\ t["stream"] <= 1
  /\ s \in {"idle", "decide"} => t["audit"] = 0
  /\ s \in {"idle", "decide", "count"} => t["summary"] = 0
  /\ s # "done" => t["stream"] = 0

\* What was told of an exec whose verdict is v, with the main thread at p; m: it
\* is in memory.
ExecTold(v, m, t, p, str) ==
  /\ t["audit"] <= 1 /\ t["summary"] <= 1
  /\ t["stream"] = IF str THEN t["summary"] ELSE 0
  /\ v = "none" => ~m /\ t["audit"] = 0 /\ t["summary"] = 0
  /\ m => t["audit"] = 0
  /\ p \in Undrained => t["summary"] = 0
  /\ v # "none" /\ p \in Undrained \cup {"drain", "append"} => m
  /\ v # "none" /\ p \in {"append"} \cup Toldall => t["summary"] = 1
  /\ p \in Toldall \cup {"crashed"} => ~m

EventInv ==
  /\ EventTypes
  /\ \A c \in Conns : ConnTold(stage[c], told[c])
  /\ \A x \in Execs : ExecTold(verdict[x], x \in memory, told[x], pc, opt.stream)
  /\ \A x \in Execs : verdict[x] # "none" => agent # "none"

LEMMA EventInit == Init => EventInv
<1>. SUFFICES ASSUME Init PROVE EventInv
  OBVIOUS
<1>1. EventTypes
  BY DEF Init, EventTypes, Events, Readers
<1>2. \A c \in Conns : ConnTold(stage[c], told[c])
  BY DEF Init, ConnTold, Events, Readers
<1>3. \A x \in Execs : ExecTold(verdict[x], x \in memory, told[x], pc, opt.stream)
  BY DEF Init, ExecTold, Events, Readers, Toldall
<1> QED
  BY <1>1, <1>2, <1>3 DEF EventInv, Init, Events

\* Nothing has been decided about an exec before there is an agent, so the main
\* thread may go anywhere.
LEMMA EventsUnborn ==
  ASSUME EventInv, agent = "none", UNCHANGED eventVars, UNCHANGED opt, pc' # "crashed"
  PROVE  EventInv'
<1>1. \A x \in Execs : verdict[x] = "none"
  BY DEF EventInv
<1>2. EventTypes' /\ \A c \in Conns : ConnTold(stage[c], told[c])'
  BY DEF EventInv, EventTypes, eventVars
<1>3. ASSUME NEW x \in Execs
      PROVE  ExecTold(verdict'[x], x \in memory', told'[x], pc', opt.stream')
  BY <1>1, <1>3 DEF EventInv, ExecTold, eventVars
<1> QED
  BY <1>1, <1>2, <1>3 DEF EventInv, eventVars

\* The main thread moves without telling anybody anything.
LEMMA EventsMove ==
  ASSUME EventInv, UNCHANGED eventVars, UNCHANGED opt, agent # "none" => agent' # "none",
         \/ pc' = pc
         \/ pc = "cell" /\ pc' = "drain"
         \/ pc \in Toldall /\ pc' \in Toldall
  PROVE  EventInv'
<1>1. EventTypes' /\ \A c \in Conns : ConnTold(stage[c], told[c])'
  BY DEF EventInv, EventTypes, eventVars
<1>2. ASSUME NEW x \in Execs
      PROVE  ExecTold(verdict'[x], x \in memory', told'[x], pc', opt.stream')
  BY <1>2 DEF EventInv, ExecTold, eventVars, Undrained, Toldall, Before
<1> QED
  BY <1>1, <1>2 DEF EventInv, eventVars

LEMMA TellOne ==
  ASSUME EventTypes, NEW e \in Events, NEW r \in Readers, Tell(e, r)
  PROVE  /\ told' \in [Events -> [Readers -> Nat]]
         /\ \A f \in Events : f # e => told'[f] = told[f]
         /\ told'[e][r] = told[e][r] + 1
         /\ \A s \in Readers : s # r => told'[e][s] = told[e][s]
BY DEF Tell, EventTypes

\* A count of what is not counted is no count at all.
LEMMA IncrementTypes ==
  ASSUME NEW S, NEW f \in [S -> Nat], NEW t
  PROVE  [f EXCEPT ![t] = @ + 1] \in [S -> Nat]
<1>1. CASE t \in S
  BY <1>1
<1>2. CASE t \notin S
  BY <1>2
<1> QED
  BY <1>1, <1>2

LEMMA NameTypes ==
  ASSUME EventTypes, NEW e, Name(e)
  PROVE  named' \in [Targets -> Nat] /\ overflow' \in Nat
<1>1. CASE named' = [named EXCEPT ![target[e]] = @ + 1] /\ UNCHANGED overflow
  BY <1>1, IncrementTypes DEF EventTypes
<1>2. CASE overflow' = overflow + 1 /\ UNCHANGED named
  BY <1>2 DEF EventTypes
<1> QED
  BY <1>1, <1>2 DEF Name

\* A broker thread takes part in no exec decision.
LEMMA EventsOfConn ==
  ASSUME EventInv, NEW c \in Conns, UNCHANGED <<pc, opt, agent, memory>>, EventTypes',
         \A e \in Events : e # c => told'[e] = told[e] /\ verdict'[e] = verdict[e],
         \A d \in Conns : d # c => stage'[d] = stage[d],
         ConnTold(stage'[c], told'[c])
  PROVE  EventInv'
<1>1. \A d \in Conns : ConnTold(stage'[d], told'[d])
  BY DEF EventInv, Events
<1>2. \A x \in Execs : verdict'[x] = verdict[x] /\ told'[x] = told[x]
  BY RunAssumption DEF Events
<1> QED
  BY <1>1, <1>2 DEF EventInv

LEMMA ConnectEvents == ASSUME EventInv, NEW c \in Conns, Connect(c) PROVE EventInv'
<1>1. /\ UNCHANGED <<pc, opt, agent, memory, told, verdict>> /\ stage[c] = "idle"
      /\ stage' = [stage EXCEPT ![c] = "decide"]
  BY DEF Connect, Here, cellVars
<1>2. EventTypes'
  BY DEF Connect, EventInv, EventTypes, Events
<1>3. stage'[c] = "decide" /\ \A d \in Conns : d # c => stage'[d] = stage[d]
  BY <1>1 DEF EventInv, EventTypes
<1>4. ConnTold(stage'[c], told'[c])
  BY <1>1, <1>3 DEF EventInv, ConnTold
<1> QED
  BY <1>1, <1>2, <1>3, <1>4, EventsOfConn

LEMMA BrokerEffect ==
  ASSUME EventTypes, NEW c \in Conns, NEW from, Broker(c, from, "count") \/ Broker(c, from, "name")
         \/ Broker(c, from, "stream") \/ Broker(c, from, "done")
  PROVE  /\ UNCHANGED <<pc, opt, agent, memory, target>> /\ stage[c] = from
         /\ stage' \in [Conns -> {"idle", "decide", "count", "name", "stream", "done"}]
         /\ \A d \in Conns : d # c => stage'[d] = stage[d]
         /\ Broker(c, from, "count") => stage'[c] = "count"
         /\ Broker(c, from, "name") => stage'[c] = "name"
         /\ Broker(c, from, "stream") => stage'[c] = "stream"
         /\ Broker(c, from, "done") => stage'[c] = "done"
BY DEF Broker, Here, cellVars, EventTypes

LEMMA DecideEvents == ASSUME EventInv, NEW c \in Conns, Decide(c) PROVE EventInv'
<1>0. EventTypes /\ c \in Events /\ "audit" \in Readers
  BY DEF EventInv, Events, Readers
<1>1. /\ UNCHANGED <<pc, opt, agent, memory, target, denied, named, overflow>>
      /\ stage[c] = "decide" /\ stage'[c] = "count"
      /\ stage' \in [Conns -> {"idle", "decide", "count", "name", "stream", "done"}]
      /\ \A d \in Conns : d # c => stage'[d] = stage[d]
  BY <1>0, BrokerEffect DEF Decide
<1>2. /\ verdict' \in [Events -> {"none", "allow", "deny"}]
      /\ \A e \in Events : e # c => verdict'[e] = verdict[e]
  BY <1>0 DEF Decide, EventTypes
<1>3. /\ told' \in [Events -> [Readers -> Nat]]
      /\ \A e \in Events : e # c => told'[e] = told[e]
      /\ told'[c]["audit"] \in {told[c]["audit"], told[c]["audit"] + 1}
      /\ told'[c]["summary"] = told[c]["summary"] /\ told'[c]["stream"] = told[c]["stream"]
  <2>1. CASE Tell(c, "audit")
    BY <1>0, <2>1, TellOne DEF Readers
  <2>2. CASE UNCHANGED told
    BY <1>0, <2>2 DEF EventTypes
  <2> QED
    BY <2>1, <2>2 DEF Decide
<1>4. EventTypes'
  BY <1>0, <1>1, <1>2, <1>3 DEF EventTypes
<1>5. ConnTold(stage'[c], told'[c])
  BY <1>1, <1>3 DEF EventInv, ConnTold
<1> QED
  BY <1>1, <1>2, <1>3, <1>4, <1>5, EventsOfConn

LEMMA CountEvents == ASSUME EventInv, NEW c \in Conns, Count(c) PROVE EventInv'
<1>0. EventTypes /\ c \in Events /\ "summary" \in Readers
  BY DEF EventInv, Events, Readers
<1>1. /\ UNCHANGED <<pc, opt, agent, memory, target>>
      /\ stage[c] = "count" /\ stage'[c] \in {"name", "stream"}
      /\ stage' \in [Conns -> {"idle", "decide", "count", "name", "stream", "done"}]
      /\ \A d \in Conns : d # c => stage'[d] = stage[d]
  <2>1. CASE verdict[c] = "deny"
    BY <2>1, <1>0, BrokerEffect DEF Count
  <2>2. CASE verdict[c] # "deny"
    BY <2>2, <1>0, BrokerEffect DEF Count
  <2> QED
    BY <2>1, <2>2
<1>2. UNCHANGED <<verdict, named, overflow>> /\ denied' \in Nat
  BY <1>0 DEF Count, EventTypes
<1>3. /\ told' \in [Events -> [Readers -> Nat]]
      /\ \A e \in Events : e # c => told'[e] = told[e]
      /\ told'[c]["summary"] = told[c]["summary"] + 1
      /\ told'[c]["audit"] = told[c]["audit"] /\ told'[c]["stream"] = told[c]["stream"]
  BY <1>0, TellOne DEF Count, Readers
<1>4. EventTypes'
  BY <1>0, <1>1, <1>2, <1>3 DEF EventTypes
<1>5. ConnTold(stage'[c], told'[c])
  BY <1>1, <1>3 DEF EventInv, ConnTold
<1> QED
  BY <1>1, <1>2, <1>3, <1>4, <1>5, EventsOfConn

LEMMA NameEvents == ASSUME EventInv, NEW c \in Conns, NameTarget(c) PROVE EventInv'
<1>0. EventTypes
  BY DEF EventInv
<1>1. /\ UNCHANGED <<pc, opt, agent, memory, target, verdict, told, denied>>
      /\ stage[c] = "name" /\ stage'[c] = "stream"
      /\ stage' \in [Conns -> {"idle", "decide", "count", "name", "stream", "done"}]
      /\ \A d \in Conns : d # c => stage'[d] = stage[d]
  BY <1>0, BrokerEffect DEF NameTarget
<1>2. named' \in [Targets -> Nat] /\ overflow' \in Nat
  BY <1>0, NameTypes DEF NameTarget
<1>4. EventTypes'
  BY <1>0, <1>1, <1>2 DEF EventTypes
<1>5. ConnTold(stage'[c], told'[c])
  BY <1>1 DEF EventInv, ConnTold
<1> QED
  BY <1>1, <1>4, <1>5, EventsOfConn

LEMMA StreamEvents == ASSUME EventInv, NEW c \in Conns, Stream(c) PROVE EventInv'
<1>0. EventTypes /\ c \in Events /\ "stream" \in Readers
  BY DEF EventInv, Events, Readers
<1>1. /\ UNCHANGED <<pc, opt, agent, memory, target, verdict, denied, named, overflow>>
      /\ stage[c] = "stream" /\ stage'[c] = "done"
      /\ stage' \in [Conns -> {"idle", "decide", "count", "name", "stream", "done"}]
      /\ \A d \in Conns : d # c => stage'[d] = stage[d]
  BY <1>0, BrokerEffect DEF Stream
<1>3. /\ told' \in [Events -> [Readers -> Nat]]
      /\ \A e \in Events : e # c => told'[e] = told[e]
      /\ told'[c]["stream"] \in {told[c]["stream"], told[c]["stream"] + 1}
      /\ told'[c]["summary"] = told[c]["summary"] /\ told'[c]["audit"] = told[c]["audit"]
  <2>1. CASE Tell(c, "stream")
    BY <1>0, <2>1, TellOne DEF Readers
  <2>2. CASE UNCHANGED told
    BY <1>0, <2>2 DEF EventTypes
  <2> QED
    BY <2>1, <2>2 DEF Stream
<1>4. EventTypes'
  BY <1>0, <1>1, <1>3 DEF EventTypes
<1>5. ConnTold(stage'[c], told'[c])
  BY <1>1, <1>3 DEF EventInv, ConnTold
<1> QED
  BY <1>1, <1>3, <1>4, <1>5, EventsOfConn

\* The exec wall decides while there is an agent, and so before the drain.
LEMMA ExecDecidedEvents ==
  ASSUME MainInv, EventInv, NEW x \in Execs, ExecDecided(x)
  PROVE  EventInv'
<1>0. EventTypes /\ x \in Events
  BY DEF EventInv, Events
<1>1. /\ UNCHANGED <<pc, opt, agent, stage, told, denied, named, overflow>>
      /\ agent = "alive" /\ pc \notin Ended /\ verdict[x] = "none" /\ memory' = memory \cup {x}
  BY DEF ExecDecided, Here, cellVars
<1>2. /\ verdict' \in [Events -> {"none", "allow", "deny"}] /\ verdict'[x] # "none"
      /\ \A e \in Events : e # x => verdict'[e] = verdict[e]
  BY <1>0 DEF ExecDecided, EventTypes
<1>3. target' \in [Events -> Targets \cup {None}]
  BY <1>0 DEF ExecDecided, EventTypes
<1>4. EventTypes'
  BY <1>0, <1>1, <1>2, <1>3 DEF EventTypes
<1>5. pc = "cell"
  BY <1>1 DEF MainInv, MainTypes, Places, Before, After, Ended
<1>6. ASSUME NEW y \in Execs
      PROVE  ExecTold(verdict'[y], y \in memory', told'[y], pc', opt'.stream)
  <2>1. CASE y = x
    <3>1. told[x]["audit"] = 0 /\ told[x]["summary"] = 0 /\ told[x]["stream"] = 0
      BY <1>1 DEF EventInv, ExecTold
    <3> QED
      BY <1>1, <1>2, <1>5, <2>1, <3>1 DEF ExecTold, Toldall
  <2>2. CASE y # x
    BY <1>1, <1>2, <2>2 DEF EventInv, Events
  <2> QED
    BY <2>1, <2>2
<1>7. \A c \in Conns : ConnTold(stage'[c], told'[c])
  BY <1>1 DEF EventInv
<1>8. \A y \in Execs : verdict'[y] # "none" => agent' # "none"
  BY <1>1
<1> QED
  BY <1>4, <1>6, <1>7, <1>8 DEF EventInv

LEMMA DrainEvents == ASSUME MainInv, EventInv, Drain PROVE EventInv'
<1>0. EventTypes
  BY DEF EventInv
<1>1. PICK x \in memory :
        /\ told[x]["summary"] = 0 /\ told' = Streamed(x)
        /\ IF verdict[x] = "deny" THEN denied' = denied + 1 /\ Name(x)
           ELSE UNCHANGED <<denied, named, overflow>>
  BY DEF Drain
<1>2. /\ UNCHANGED <<pc, opt, agent, verdict, target, stage, memory>> /\ pc = "drain"
      /\ x \in Execs /\ x \in Events
  BY <1>0 DEF Drain, Here, cellVars, EventTypes, Events
<1>3. denied' \in Nat /\ named' \in [Targets -> Nat] /\ overflow' \in Nat
  <2>1. CASE verdict[x] = "deny"
    BY <1>0, <1>1, <2>1, NameTypes DEF EventTypes
  <2>2. CASE verdict[x] # "deny"
    BY <1>0, <1>1, <2>2 DEF EventTypes
  <2> QED
    BY <2>1, <2>2
<1>4. /\ told' \in [Events -> [Readers -> Nat]]
      /\ \A e \in Events : e # x => told'[e] = told[e]
      /\ told'[x]["summary"] = told[x]["summary"] + 1
      /\ told'[x]["stream"] = told[x]["stream"] + (IF opt.stream THEN 1 ELSE 0)
      /\ told'[x]["audit"] = told[x]["audit"]
  <2>1. told' = [told EXCEPT ![x]["summary"] = @ + 1,
                             ![x]["stream"] = @ + (IF opt.stream THEN 1 ELSE 0)]
    BY <1>1 DEF Streamed
  <2> QED
    BY <1>0, <1>2, <2>1 DEF EventTypes, Readers
<1>5. EventTypes'
  BY <1>0, <1>2, <1>3, <1>4 DEF EventTypes
<1>6. ASSUME NEW y \in Execs
      PROVE  ExecTold(verdict'[y], y \in memory', told'[y], pc', opt'.stream)
  <2>0. ExecTold(verdict[y], y \in memory, told[y], pc, opt.stream)
    BY DEF EventInv
  <2>1. CASE y = x
    <3>1. told[x]["stream"] = 0
      BY <1>1, <1>2, <2>0, <2>1 DEF ExecTold
    <3> QED
      BY <1>1, <1>2, <1>4, <2>0, <2>1, <3>1 DEF ExecTold, Undrained, Before, Toldall
  <2>2. CASE y # x
    BY <1>2, <1>4, <2>0, <2>2 DEF Events
  <2> QED
    BY <2>1, <2>2
<1>7. \A c \in Conns : ConnTold(stage'[c], told'[c])
  BY <1>2, <1>4, RunAssumption DEF EventInv, Events
<1> QED
  BY <1>2, <1>5, <1>6, <1>7 DEF EventInv

LEMMA DrainedEvents == ASSUME EventInv, Drained PROVE EventInv'
<1>1. /\ UNCHANGED <<opt, agent>> /\ UNCHANGED eventVars /\ pc = "drain" /\ pc' = "append"
      /\ \A x \in memory : told[x]["summary"] > 0
  BY DEF Drained, At, Here, cellVars
<1>2. EventTypes' /\ \A c \in Conns : ConnTold(stage[c], told[c])'
  BY <1>1 DEF EventInv, EventTypes, eventVars
<1>3. ASSUME NEW x \in Execs
      PROVE  ExecTold(verdict'[x], x \in memory', told'[x], pc', opt'.stream)
  <2>1. ExecTold(verdict[x], x \in memory, told[x], pc, opt.stream)
        /\ told[x]["summary"] \in Nat /\ (verdict[x] # "none" => x \in memory)
    BY <1>1 DEF EventInv, EventTypes, ExecTold, Events, Readers
  <2>2. verdict[x] # "none" => told[x]["summary"] = 1
    BY <1>1, <2>1 DEF ExecTold
  <2> QED
    BY <1>1, <2>1, <2>2 DEF ExecTold, eventVars, Undrained, Before, Toldall
<1> QED
  BY <1>1, <1>2, <1>3 DEF EventInv, eventVars

LEMMA AppendEvents == ASSUME EventInv, AppendExecs PROVE EventInv'
<1>0. EventTypes
  BY DEF EventInv
<1>1. /\ UNCHANGED <<opt, agent, verdict, target, stage, denied, named, overflow>>
      /\ pc = "append" /\ pc' = "unlink" /\ memory' = {}
  BY DEF AppendExecs, At, Here, cellVars
<1>2. /\ told' \in [Events -> [Readers -> Nat]]
      /\ \A e \in Events :
           /\ told'[e]["summary"] = told[e]["summary"] /\ told'[e]["stream"] = told[e]["stream"]
           /\ \/ told'[e]["audit"] = told[e]["audit"]
              \/ e \in memory /\ told'[e]["audit"] = told[e]["audit"] + 1
  <2>1. CASE UNCHANGED told
    BY <1>0, <2>1 DEF EventTypes
  <2>2. CASE told' = [e \in Events |-> [r \in Readers |->
                       told[e][r] + (IF e \in memory /\ r = "audit" THEN 1 ELSE 0)]]
    BY <1>0, <2>2 DEF EventTypes, Readers
  <2> QED
    BY <2>1, <2>2 DEF AppendExecs
<1>3. EventTypes'
  BY <1>0, <1>1, <1>2 DEF EventTypes
<1>4. \A c \in Conns : ConnTold(stage'[c], told'[c])
  BY <1>0, <1>1, <1>2, RunAssumption DEF EventInv, EventTypes, Events, ConnTold
<1>5. ASSUME NEW x \in Execs
      PROVE  ExecTold(verdict'[x], x \in memory', told'[x], pc', opt'.stream)
  <2>1. ExecTold(verdict[x], x \in memory, told[x], pc, opt.stream) /\ x \in Events
    BY DEF EventInv, Events
  <2> QED
    BY <1>1, <1>2, <2>1 DEF ExecTold, Undrained, Before, Toldall
<1> QED
  BY <1>1, <1>3, <1>4, <1>5 DEF EventInv

LEMMA CrashEvents == ASSUME EventInv, Crash PROVE EventInv'
<1>1. /\ UNCHANGED <<opt, agent, verdict, target, stage, told, denied, named, overflow>>
      /\ pc' = "crashed" /\ memory' = {}
  BY DEF Crash, Here, cellVars
<1>2. EventTypes' /\ \A c \in Conns : ConnTold(stage[c], told[c])'
  BY <1>1 DEF EventInv, EventTypes
<1>3. ASSUME NEW x \in Execs
      PROVE  ExecTold(verdict'[x], x \in memory', told'[x], pc', opt'.stream)
  BY <1>1, <1>3 DEF EventInv, ExecTold, Undrained, Before, Toldall
<1> QED
  BY <1>1, <1>2, <1>3 DEF EventInv

LEMMA EventStep == MainInv /\ EventInv /\ [Next]_vars => EventInv'
<1>. SUFFICES ASSUME MainInv, EventInv, [Next]_vars PROVE EventInv'
  OBVIOUS
<1>1. CASE \/ Refuses \/ Load \/ CheckSignature \/ PruneProvider \/ VerifyPins \/ AddWorkspace
           \/ BindToken \/ Register \/ RecordPolicy \/ IssueToken \/ SelectTier \/ EnterPhase
           \/ OpenStream \/ Listen \/ BuildFails \/ StartAgent
  <2>1. UNCHANGED eventVars /\ UNCHANGED opt
    BY <1>1 DEF Refuses, Load, CheckSignature, PruneProvider, VerifyPins, AddWorkspace,
      BindToken, Register, RecordPolicy, IssueToken, SelectTier, EnterPhase, OpenStream, Listen,
      BuildFails, StartAgent, Quiet
  <2>2. agent = "none"
    BY <1>1 DEF Refuses, Load, CheckSignature, PruneProvider, VerifyPins, AddWorkspace,
      BindToken, Register, RecordPolicy, IssueToken, SelectTier, EnterPhase, OpenStream, Listen,
      BuildFails, StartAgent, Starts, At, MainInv, Before
  <2>3. pc' # "crashed"
    BY <1>1 DEF Refuses, Load, CheckSignature, PruneProvider, VerifyPins, AddWorkspace,
      BindToken, Register, RecordPolicy, IssueToken, SelectTier, EnterPhase, OpenStream, Listen,
      BuildFails, StartAgent, At
  <2> QED
    BY <2>1, <2>2, <2>3, EventsUnborn
<1>2. CASE AgentDies
  BY <1>2, EventsMove DEF AgentDies, Dies
<1>3. CASE CellAnswers
  BY <1>3, EventsMove DEF CellAnswers, Answers, At
<1>4. CASE Unlink \/ WriteResult \/ Deregister
  <2>1. /\ pc \in Toldall /\ pc' \in Toldall /\ UNCHANGED eventVars /\ UNCHANGED <<opt, agent>>
    BY <1>4 DEF Unlink, WriteResult, Deregister, At, Toldall, cellVars
  <2> QED
    BY <2>1, EventsMove
<1>5. CASE \E c \in Conns : Connect(c) \/ Decide(c) \/ Count(c) \/ NameTarget(c) \/ Stream(c)
  BY <1>5, ConnectEvents, DecideEvents, CountEvents, NameEvents, StreamEvents
<1>6. CASE \E x \in Execs : ExecDecided(x)
  BY <1>6, ExecDecidedEvents
<1>7. CASE Drain
  BY <1>7, DrainEvents
<1>8. CASE Drained
  BY <1>8, DrainedEvents
<1>9. CASE AppendExecs
  BY <1>9, AppendEvents
<1>10. CASE Crash
  BY <1>10, CrashEvents
<1>11. CASE UNCHANGED vars
  BY <1>11, EventsMove DEF vars, cellVars
<1> QED
  BY StepCases, <1>1, <1>2, <1>3, <1>4, <1>5, <1>6, <1>7, <1>8, <1>9, <1>10, <1>11

(***************************************************************************)
(* The theorems.                                                           *)
(***************************************************************************)

RunInv == MainInv /\ PolicyInv /\ EventInv

\* The invariant holds in every state of every run.
THEOREM RunInvariant == Spec => []RunInv
<1>1. Init => RunInv
  BY MainInit, PolicyInit, EventInit DEF RunInv
<1>2. RunInv /\ [Next]_vars => RunInv'
  BY MainStep, PolicyStep, EventStep DEF RunInv
<1> QED
  BY <1>1, <1>2, PTL DEF Spec

\* The types of the variables (run.rs).
THEOREM RunTypes == Spec => []TypeOK
<1>1. RunInv => TypeOK
  BY TypeParts DEF RunInv, MainInv, PolicyInv, EventInv
<1> QED
  BY <1>1, RunInvariant, PTL

\* An agent never reaches more than what was authored and granted, nor more than
\* the capability its run is bound to (run.rs:183-268, 380-412).
THEOREM RunWithinGrants == Spec => []CellWithinGrants
<1>1. RunInv => CellWithinGrants
  <2>. SUFFICES ASSUME RunInv, agent # "none" PROVE CellWithinGrants
    BY DEF CellWithinGrants
  <2>1. prof # None /\ granted # None
    BY DEF RunInv, PolicyInv
  <2>2. prof \in Profile /\ granted \in Profile /\ Narrower(prof, granted)
    BY <2>1 DEF RunInv, PolicyInv, PolicyTypes
  <2>3. cap # None => prof.net \subseteq cap.net /\ Covers(prof.rw) \subseteq Covers(cap.rw)
    BY DEF RunInv, PolicyInv
  <2>4. ~granted.open => Reach(prof) = prof.net
    BY <2>2 DEF Narrower, Reach
  <2> QED
    BY <2>2, <2>3, <2>4, NarrowerAtMost DEF CellWithinGrants
<1> QED
  BY <1>1, RunInvariant, PTL

\* What was recorded and delegated before the start covers what the agent gets
\* (run.rs:286-334).
THEOREM RunRecordCovers == Spec => []RecordCoversCell
<1>1. RunInv => RecordCoversCell
  <2>. SUFFICES ASSUME RunInv, agent # "none" PROVE RecordCoversCell
    BY DEF RecordCoversCell
  <2>1. prof \in Profile
    BY DEF RunInv, PolicyInv, PolicyTypes
  <2>2. recorded # None => recorded \in Profile /\ Narrower(prof, recorded)
    BY DEF RunInv, PolicyInv, PolicyTypes
  <2>3. issued # None => prof.net \subseteq issued.net /\ prof.rw \subseteq issued.rw
    BY DEF RunInv, PolicyInv
  <2> QED
    BY <2>1, <2>2, <2>3, NarrowerAtMost DEF RecordCoversCell
<1> QED
  BY <1>1, RunInvariant, PTL

\* No agent without the exec wall its profile demands (run.rs:336-375).
THEOREM RunDemandMet == Spec => []DemandMet
<1>1. RunInv => DemandMet
  BY DEF RunInv, PolicyInv, Walled, SameDemand, DemandMet
<1> QED
  BY <1>1, RunInvariant, PTL

\* Nobody is told of a decision twice, and nothing decided stays untold in a run
\* that ends by itself (run.rs:954-1172).
THEOREM RunToldOnce == Spec => []ToldOnce
<1>1. RunInv => ToldOnce
  <2>. SUFFICES ASSUME RunInv PROVE ToldOnce
    OBVIOUS
  <2>0. /\ EventTypes /\ opt.stream \in BOOLEAN
        /\ \A c \in Conns : ConnTold(stage[c], told[c])
        /\ \A x \in Execs : ExecTold(verdict[x], x \in memory, told[x], pc, opt.stream)
    BY RunAssumption DEF RunInv, EventInv, MainInv, MainTypes
  <2>1. ASSUME NEW e \in Events, NEW r \in Readers PROVE told[e][r] <= 1
    <3>1. CASE e \in Conns
      BY <2>0, <3>1 DEF ConnTold, Readers
    <3>2. CASE e \in Execs
      BY <2>0, <3>2 DEF ExecTold, Readers
    <3> QED
      BY <3>1, <3>2 DEF Events
  <2>2. ASSUME pc = "over" PROVE memory = {}
    BY <2>0, <2>2 DEF ExecTold, EventTypes, Toldall
  <2>3. ASSUME pc = "over", NEW x \in Execs, verdict[x] # "none"
        PROVE  told[x]["summary"] = 1 /\ told[x]["stream"] = (IF opt.stream THEN 1 ELSE 0)
    BY <2>0, <2>3 DEF ExecTold, Toldall
  <2> QED
    BY <2>1, <2>2, <2>3 DEF ToldOnce
<1> QED
  BY <1>1, RunInvariant, PTL

\* A run that ends by itself leaves no link, and a registration or a missing
\* document only if it had no cell; the document never denies an agent that ran
\* (run.rs:489-530, 743-925).
THEOREM RunEndsClean == Spec => []EndsClean
<1>1. RunInv => EndsClean
  BY DEF RunInv, MainInv, EndsClean
<1> QED
  BY <1>1, RunInvariant, PTL

\* Whatever the profile, the demands and the order in which things fail, an agent
\* starts within what was granted, recorded and delegated, and under the wall that
\* was demanded (run.rs:186-389).
THEOREM RunBounded == Spec => []AgentBounded
BY RunWithinGrants, RunRecordCovers, RunDemandMet, PTL DEF AgentBounded

\* However many broker threads and exec decisions there are, a run leaves every
\* decision told once and nothing of its own behind (run.rs:743-1172).
THEOREM RunLeaves == Spec => []RunConcluded
BY RunToldOnce, RunEndsClean, PTL DEF RunConcluded

(***************************************************************************)
(* The summary adds up: the sum of the named targets' counts.              *)
(***************************************************************************)

\* A set with 0 and every member's successor has every natural number.
LEMMA NatSets ==
  ASSUME NEW T, 0 \in T, \A n \in Nat : n \in T => n + 1 \in T
  PROVE  Nat \subseteq T
<1> SUFFICES ASSUME Nat \ T # {} PROVE FALSE
  OBVIOUS
<1>1. PICK x \in Nat \ T : \A y \in Nat \ T : ~(<<y, x>> \in OpToRel(<, Nat))
  BY NatLessThanWellFounded, WFMin, Zenon
<1>2. \A y \in Nat \ T : ~(y < x)
  BY <1>1 DEF OpToRel
<1>3. x # 0 /\ x - 1 \in Nat /\ x - 1 \in T
  BY <1>2
<1> QED BY <1>3

\* How the sum goes over a set: g[s] is the sum of f over s, one element at a time.
First(s) == CHOOSE x \in s : TRUE
Adds(g, f, D) == \A s \in D : g[s] = IF s = {} THEN 0 ELSE f[First(s)] + g[s \ {First(s)}]
UpTo(S, n) == {s \in SUBSET S : Cardinality(s) <= n}

LEMMA FirstIn == ASSUME NEW s, s # {} PROVE First(s) \in s
BY DEF First

LEMMA SmallerSet ==
  ASSUME NEW S, IsFiniteSet(S), NEW n \in Nat, NEW s \in UpTo(S, n + 1), s # {}
  PROVE  s \ {First(s)} \in UpTo(S, n) /\ First(s) \in S
<1>1. IsFiniteSet(s) /\ Cardinality(s) \in Nat
  BY FS_Subset, FS_CardinalityType DEF UpTo
<1>2. Cardinality(s \ {First(s)}) = Cardinality(s) - 1
  BY <1>1, FirstIn, FS_RemoveElement
<1> QED
  BY <1>1, <1>2, FirstIn DEF UpTo

LEMMA AddsNothing == ASSUME NEW S, NEW f, NEW g, Adds(g, f, SUBSET S) PROVE g[{}] = 0
BY DEF Adds

\* Such a g exists on a finite set.
LEMMA SumExists ==
  ASSUME NEW S, IsFiniteSet(S), NEW f \in [S -> Nat]
  PROVE  \E g \in [SUBSET S -> Nat] : Adds(g, f, SUBSET S)
<1> DEFINE R(n) == \E g \in [UpTo(S, n) -> Nat] : Adds(g, f, UpTo(S, n))
           T == {n \in Nat : R(n)}
<1>1. R(0)
  <2>1. \A s \in UpTo(S, 0) : s = {}
    BY FS_Subset, FS_CardinalityType, FS_EmptySet DEF UpTo
  <2> DEFINE g == [s \in UpTo(S, 0) |-> 0]
  <2>2. g \in [UpTo(S, 0) -> Nat] /\ Adds(g, f, UpTo(S, 0))
    BY <2>1 DEF Adds
  <2> QED BY <2>2
<1>2. ASSUME NEW n \in Nat, R(n) PROVE R(n + 1)
  <2>1. PICK g \in [UpTo(S, n) -> Nat] : Adds(g, f, UpTo(S, n))
    BY <1>2
  <2> DEFINE h == [s \in UpTo(S, n + 1) |->
                     IF s = {} THEN 0 ELSE f[First(s)] + g[s \ {First(s)}]]
  <2>2. h \in [UpTo(S, n + 1) -> Nat]
    BY SmallerSet
  <2>3. \A s \in UpTo(S, n) : s \in UpTo(S, n + 1) /\ h[s] = g[s]
    <3>1. \A s \in UpTo(S, n) : Cardinality(s) \in Nat
      BY FS_Subset, FS_CardinalityType DEF UpTo
    <3>2. \A s \in UpTo(S, n) : s \in UpTo(S, n + 1)
      BY <3>1 DEF UpTo
    <3> QED BY <2>1, <3>2 DEF Adds
  <2>4. Adds(h, f, UpTo(S, n + 1))
    <3> SUFFICES ASSUME NEW s \in UpTo(S, n + 1)
                 PROVE  h[s] = IF s = {} THEN 0 ELSE f[First(s)] + h[s \ {First(s)}]
      BY DEF Adds
    <3>1. CASE s = {}
      BY <3>1
    <3>2. CASE s # {}
      <4>1. s \ {First(s)} \in UpTo(S, n)
        BY <3>2, SmallerSet
      <4>2. h[s \ {First(s)}] = g[s \ {First(s)}]
        BY <2>3, <4>1
      <4> HIDE DEF h
      <4>3. h[s] = f[First(s)] + g[s \ {First(s)}]
        BY <3>2 DEF h
      <4> QED BY <3>2, <4>2, <4>3
    <3> QED BY <3>1, <3>2
  <2> HIDE DEF h
  <2> QED BY <2>2, <2>4
<1>3. 0 \in T /\ \A n \in Nat : n \in T => n + 1 \in T
  BY <1>1, <1>2
<1> HIDE DEF T
<1>4. Nat \subseteq T
  BY <1>3, NatSets
<1>5. Cardinality(S) \in Nat
  BY FS_CardinalityType
<1>6. R(Cardinality(S))
  BY <1>4, <1>5 DEF T
<1>7. UpTo(S, Cardinality(S)) = SUBSET S
  BY FS_Subset DEF UpTo
<1> QED BY <1>6, <1>7

\* The sum is such a g at the whole set.
Total(f, S) == MapThenSumSet(LAMBDA t : f[t], S)

LEMMA TotalAdds ==
  ASSUME NEW S, IsFiniteSet(S), NEW f \in [S -> Nat]
  PROVE  \E g \in [SUBSET S -> Nat] : Adds(g, f, SUBSET S) /\ Total(f, S) = g[S]
<1> DEFINE Eq(i) == i = [s \in SUBSET S |-> IF s = {} THEN 0 ELSE f[First(s)] + i[s \ {First(s)}]]
           iter == CHOOSE i : Eq(i)
<1>1. PICK g \in [SUBSET S -> Nat] : Adds(g, f, SUBSET S)
  BY SumExists
<1>2. Eq(g)
  BY <1>1 DEF Adds
<1>3. Eq(iter)
  BY <1>2
<1>4. Total(f, S) = iter[S]
  BY DEF Total, MapThenSumSet, MapThenFoldSet, First
<1> HIDE DEF iter
<1>5. Adds(iter, f, SUBSET S)
  BY <1>3 DEF Adds
<1>6. iter = [s \in SUBSET S |-> iter[s]]
  BY <1>3
<1> DEFINE T == {n \in Nat : \A s \in UpTo(S, n) : iter[s] \in Nat}
<1>7. 0 \in T
  <2>1. \A s \in UpTo(S, 0) : s = {}
    BY FS_Subset, FS_CardinalityType, FS_EmptySet DEF UpTo
  <2>2. \A s \in UpTo(S, 0) : iter[s] = 0
    BY <1>5, <2>1, AddsNothing, Zenon
  <2> QED BY <2>2
<1>8. ASSUME NEW n \in Nat, n \in T PROVE n + 1 \in T
  <2> SUFFICES ASSUME NEW s \in UpTo(S, n + 1) PROVE iter[s] \in Nat
    OBVIOUS
  <2>1. CASE s = {}
    BY <1>5, <2>1, AddsNothing
  <2>2. CASE s # {}
    <3>1. iter[s \ {First(s)}] \in Nat /\ First(s) \in S
      BY <1>8, <2>2, SmallerSet
    <3>2. iter[s] = f[First(s)] + iter[s \ {First(s)}]
      BY <1>5, <2>2 DEF Adds, UpTo
    <3> QED BY <3>1, <3>2
  <2> QED BY <2>1, <2>2
<1> HIDE DEF T
<1>9. Nat \subseteq T
  BY <1>7, <1>8, NatSets
<1>10. \A s \in SUBSET S : iter[s] \in Nat
  <2>1. Cardinality(S) \in Nat
    BY FS_CardinalityType
  <2>2. \A s \in SUBSET S : s \in UpTo(S, Cardinality(S))
    BY FS_Subset DEF UpTo
  <2> QED BY <1>9, <2>1, <2>2 DEF T
<1>11. iter \in [SUBSET S -> Nat]
  BY <1>6, <1>10
<1> QED
  BY <1>4, <1>5, <1>11

LEMMA TotalNat ==
  ASSUME NEW S, IsFiniteSet(S), NEW f \in [S -> Nat] PROVE Total(f, S) \in Nat
<1>1. PICK g \in [SUBSET S -> Nat] : Total(f, S) = g[S]
  BY TotalAdds
<1> QED BY <1>1

\* Nothing counted adds up to nothing, and one more of one thing adds one.
LEMMA TotalOfNothing ==
  ASSUME NEW S, IsFiniteSet(S), NEW f \in [S -> Nat], \A t \in S : f[t] = 0
  PROVE  Total(f, S) = 0
<1>1. PICK g \in [SUBSET S -> Nat] : Adds(g, f, SUBSET S) /\ Total(f, S) = g[S]
  BY TotalAdds
<1> DEFINE T == {n \in Nat : \A s \in UpTo(S, n) : g[s] = 0}
<1>2. 0 \in T
  <2>1. \A s \in UpTo(S, 0) : s = {}
    BY FS_Subset, FS_CardinalityType, FS_EmptySet DEF UpTo
  <2> QED BY <1>1, <2>1 DEF Adds
<1>3. ASSUME NEW n \in Nat, n \in T PROVE n + 1 \in T
  <2> SUFFICES ASSUME NEW s \in UpTo(S, n + 1) PROVE g[s] = 0
    OBVIOUS
  <2>1. CASE s = {}
    BY <1>1, <2>1 DEF Adds
  <2>2. CASE s # {}
    <3>1. g[s \ {First(s)}] = 0 /\ First(s) \in S
      BY <1>3, <2>2, SmallerSet
    <3>2. g[s] = f[First(s)] + g[s \ {First(s)}]
      BY <1>1, <2>2 DEF Adds, UpTo
    <3> QED BY <3>1, <3>2
  <2> QED BY <2>1, <2>2
<1> HIDE DEF T
<1>4. Nat \subseteq T
  BY <1>2, <1>3, NatSets
<1>5. Cardinality(S) \in Nat /\ S \in UpTo(S, Cardinality(S))
  BY FS_CardinalityType DEF UpTo
<1> QED BY <1>1, <1>4, <1>5 DEF T

LEMMA TotalOfOneMore ==
  ASSUME NEW S, IsFiniteSet(S), NEW f \in [S -> Nat], NEW u \in S
  PROVE  Total([f EXCEPT ![u] = @ + 1], S) = Total(f, S) + 1 /\ Total(f, S) \in Nat
<1> DEFINE e == [f EXCEPT ![u] = @ + 1]
<1>0. e \in [S -> Nat] /\ e[u] = f[u] + 1 /\ \A t \in S : t # u => e[t] = f[t]
  OBVIOUS
<1> HIDE DEF e
<1>1. PICK g \in [SUBSET S -> Nat] : Adds(g, f, SUBSET S) /\ Total(f, S) = g[S]
  BY TotalAdds
<1>2. PICK h \in [SUBSET S -> Nat] : Adds(h, e, SUBSET S) /\ Total(e, S) = h[S]
  BY <1>0, TotalAdds
<1> DEFINE T == {n \in Nat : \A s \in UpTo(S, n) : h[s] = g[s] + (IF u \in s THEN 1 ELSE 0)}
<1>3. 0 \in T
  <2>1. \A s \in UpTo(S, 0) : s = {}
    BY FS_Subset, FS_CardinalityType, FS_EmptySet DEF UpTo
  <2>2. h[{}] = 0 /\ g[{}] = 0
    BY <1>1, <1>2, AddsNothing
  <2>3. \A s \in UpTo(S, 0) : h[s] = 0 /\ g[s] = 0 /\ u \notin s
    BY <2>1, <2>2, Zenon
  <2>4. \A s \in UpTo(S, 0) : h[s] = g[s] + (IF u \in s THEN 1 ELSE 0)
    BY <2>3
  <2> QED BY <2>4
<1>4. ASSUME NEW n \in Nat, n \in T PROVE n + 1 \in T
  <2> SUFFICES ASSUME NEW s \in UpTo(S, n + 1) 
               PROVE  h[s] = g[s] + (IF u \in s THEN 1 ELSE 0)
    OBVIOUS
  <2>1. CASE s = {}
    <3>1. h[{}] = 0 /\ g[{}] = 0
      BY <1>1, <1>2, AddsNothing
    <3> QED BY <2>1, <3>1
  <2>2. CASE s # {}
    <3> DEFINE r == s \ {First(s)}
    <3>1. /\ r \in SUBSET S /\ First(s) \in S /\ s \in SUBSET S /\ First(s) \in s
          /\ h[r] = g[r] + (IF u \in r THEN 1 ELSE 0)
      BY <1>4, <2>2, SmallerSet, FirstIn DEF UpTo
    <3>2. g[s] = f[First(s)] + g[r] /\ h[s] = e[First(s)] + h[r]
      BY <1>1, <1>2, <2>2, <3>1 DEF Adds
    <3>3. g[r] \in Nat /\ f[First(s)] \in Nat
      BY <3>1
    <3>4. u \in s <=> u \in r \/ u = First(s)
      BY <3>1
    <3>5. First(s) \notin r
      OBVIOUS
    <3> HIDE DEF r
    <3> QED BY <1>0, <3>1, <3>2, <3>3, <3>4, <3>5
  <2> QED BY <2>1, <2>2
<1> HIDE DEF T
<1>5. Nat \subseteq T
  BY <1>3, <1>4, NatSets
<1>6. Cardinality(S) \in Nat /\ S \in UpTo(S, Cardinality(S))
  BY FS_CardinalityType DEF UpTo
<1>7. h[S] = g[S] + 1 /\ g[S] \in Nat
  BY <1>5, <1>6 DEF T
<1> QED BY <1>1, <1>2, <1>7 DEF e

\* The broker threads that have counted a denial and not named it.
Naming == {c \in Conns : stage[c] = "name"}
Named == {t \in Targets : named[t] > 0}

\* What is counted, at any point: threads that name what they counted are owed one.
SumInv ==
  /\ \A c \in Conns : stage[c] # "idle" => target[c] \in Targets
  /\ \A x \in Execs : verdict[x] # "none" => target[x] \in Targets
  /\ memory \subseteq {x \in Execs : verdict[x] # "none"}
  /\ IsFiniteSet(Naming)
  /\ Cardinality(Named) <= MaxNamed
  /\ denied = overflow + Total(named, Targets) + Cardinality(Naming)

LEMMA SumInit == Init => SumInv
<1> SUFFICES ASSUME Init PROVE SumInv
  OBVIOUS
<1>1. Naming = {} /\ Named = {}
  BY DEF Init, Naming, Named
<1>2. Total(named, Targets) = 0
  BY TotalOfNothing, RunAssumption DEF Init
<1>3. denied = overflow + Total(named, Targets) + Cardinality(Naming)
  BY <1>1, <1>2, FS_EmptySet DEF Init
<1> QED
  BY <1>1, <1>3, FS_EmptySet, RunAssumption DEF Init, SumInv, Events

\* A denial that is named or counted apart is one more.
LEMMA NameAdds ==
  ASSUME EventTypes, Cardinality(Named) <= MaxNamed, NEW e, target[e] \in Targets, Name(e)
  PROVE  /\ overflow' + Total(named', Targets) = overflow + Total(named, Targets) + 1
         /\ Cardinality(Named') <= MaxNamed
<1> DEFINE t == target[e]
<1>0. /\ IsFiniteSet(Named) /\ Cardinality(Named) \in Nat /\ MaxNamed \in Nat
      /\ IsFiniteSet(Targets) /\ named \in [Targets -> Nat] /\ overflow \in Nat
      /\ Total(named, Targets) \in Nat
  BY RunAssumption, FS_Subset, FS_CardinalityType, TotalNat DEF Named, EventTypes
<1>1. CASE overflow' = overflow + 1 /\ UNCHANGED named
  <2>1. Named' = Named
    BY <1>1 DEF Named
  <2> QED
    BY <1>0, <1>1, <2>1
<1>2. CASE /\ named[t] > 0 \/ Cardinality(Named) < MaxNamed
           /\ named' = [named EXCEPT ![t] = @ + 1] /\ UNCHANGED overflow
  <2>1. Total(named', Targets) = Total(named, Targets) + 1
    BY <1>0, <1>2, TotalOfOneMore
  <2>2. Named' = Named \cup {t}
    BY <1>0, <1>2 DEF Named
  <2>3. named[t] > 0 <=> t \in Named
    BY DEF Named
  <2>4. Cardinality(Named') = IF t \in Named THEN Cardinality(Named) ELSE Cardinality(Named) + 1
    BY <1>0, <2>2, FS_AddElement
  <2>5. Cardinality(Named') <= MaxNamed
    BY <1>0, <1>2, <2>3, <2>4
  <2> QED
    BY <1>0, <1>2, <2>1, <2>5
<1> QED
  BY <1>1, <1>2 DEF Name, Named

\* Steps that leave the counts alone.
LEMMA SumStays ==
  ASSUME SumInv, UNCHANGED <<denied, named, overflow>>, Naming' = Naming,
         \A c \in Conns : stage'[c] # "idle" => target'[c] \in Targets,
         \A x \in Execs : verdict'[x] # "none" => target'[x] \in Targets,
         memory' \subseteq {x \in Execs : verdict'[x] # "none"}
  PROVE  SumInv'
<1>1. Named' = Named
  BY DEF Named
<1> QED
  BY <1>1 DEF SumInv

LEMMA SumFrame == ASSUME SumInv, UNCHANGED eventVars PROVE SumInv'
BY SumStays DEF SumInv, eventVars, Naming

\* A thread enters or leaves the place where it names.
LEMMA NamingMoves ==
  ASSUME EventTypes, IsFiniteSet(Naming), NEW c \in Conns, \A d \in Conns : d # c => stage'[d] = stage[d]
  PROVE  /\ IsFiniteSet(Naming') /\ Cardinality(Naming) \in Nat /\ Cardinality(Naming') \in Nat
         /\ stage[c] # "name" /\ stage'[c] = "name" => Cardinality(Naming') = Cardinality(Naming) + 1
         /\ stage[c] = "name" /\ stage'[c] # "name" => Cardinality(Naming') = Cardinality(Naming) - 1
         /\ stage[c] # "name" /\ stage'[c] # "name" => Naming' = Naming
<1>1. CASE stage'[c] = "name"
  <2>1. Naming' = Naming \cup {c}
    BY <1>1 DEF Naming
  <2>2. stage[c] # "name" => c \notin Naming
    BY DEF Naming
  <2> QED
    BY <1>1, <2>1, <2>2, FS_AddElement, FS_CardinalityType
<1>2. CASE stage'[c] # "name"
  <2>1. Naming' = Naming \ {c}
    BY <1>2 DEF Naming
  <2>2. stage[c] = "name" <=> c \in Naming
    BY DEF Naming
  <2> QED
    BY <1>2, <2>1, <2>2, FS_RemoveElement, FS_CardinalityType
<1> QED
  BY <1>1, <1>2

\* The steps of one broker thread.
LEMMA SumConn ==
  ASSUME SumInv, EventTypes, NEW c \in Conns,
         Connect(c) \/ Decide(c) \/ Count(c) \/ NameTarget(c) \/ Stream(c)
  PROVE  SumInv'
<1>0. /\ c \in Events /\ \A x \in Execs : x # c /\ x \in Events
      /\ IsFiniteSet(Naming) /\ Total(named, Targets) \in Nat
      /\ denied = overflow + Total(named, Targets) + Cardinality(Naming)
      /\ denied \in Nat /\ overflow \in Nat
  BY RunAssumption, TotalNat DEF Events, SumInv, EventTypes
<1>1. CASE Connect(c)
  <2>1. /\ UNCHANGED <<verdict, memory, denied, named, overflow>> /\ stage[c] = "idle"
        /\ stage' = [stage EXCEPT ![c] = "decide"]
        /\ \E t \in Targets : target' = [target EXCEPT ![c] = t]
    BY <1>1 DEF Connect
  <2>2. /\ stage'[c] = "decide" /\ \A d \in Conns : d # c => stage'[d] = stage[d]
        /\ target'[c] \in Targets /\ \A e \in Events : e # c => target'[e] = target[e]
    BY <1>0, <2>1 DEF EventTypes
  <2>3. Naming' = Naming
    BY <1>0, <2>1, <2>2, NamingMoves
  <2>4. /\ \A d \in Conns : stage'[d] # "idle" => target'[d] \in Targets
        /\ \A x \in Execs : verdict'[x] # "none" => target'[x] \in Targets
    BY <1>0, <2>1, <2>2 DEF SumInv, Events
  <2>5. memory' \subseteq {x \in Execs : verdict'[x] # "none"}
    BY <2>1 DEF SumInv
  <2> QED BY <2>1, <2>3, <2>4, <2>5, SumStays
<1>2. CASE Decide(c) \/ Stream(c)
  <2>1. /\ UNCHANGED <<memory, target, denied, named, overflow>> /\ stage[c] \in {"decide", "stream"}
        /\ stage'[c] \in {"count", "done"} /\ \A d \in Conns : d # c => stage'[d] = stage[d]
    BY <1>2, BrokerEffect DEF Decide, Stream
  <2>2. \A x \in Execs : verdict'[x] = verdict[x]
    BY <1>0, <1>2 DEF Decide, Stream, EventTypes
  <2>3. Naming' = Naming
    BY <1>0, <2>1, NamingMoves
  <2>4. /\ \A d \in Conns : stage'[d] # "idle" => target'[d] \in Targets
        /\ \A x \in Execs : verdict'[x] # "none" => target'[x] \in Targets
    BY <1>0, <2>1, <2>2 DEF SumInv, Events
  <2>5. memory' \subseteq {x \in Execs : verdict'[x] # "none"}
    BY <2>1, <2>2 DEF SumInv
  <2> QED BY <2>1, <2>3, <2>4, <2>5, SumStays
<1>3. CASE Count(c) /\ verdict[c] # "deny"
  <2>1. /\ UNCHANGED <<memory, target>> /\ stage[c] = "count"
        /\ stage'[c] = "stream" /\ \A d \in Conns : d # c => stage'[d] = stage[d]
    BY <1>3, BrokerEffect DEF Count
  <2>2. UNCHANGED <<verdict, denied, named, overflow>>
    BY <1>0, <1>3 DEF Count
  <2>3. Naming' = Naming
    BY <1>0, <2>1, NamingMoves
  <2>4. /\ \A d \in Conns : stage'[d] # "idle" => target'[d] \in Targets
        /\ \A x \in Execs : verdict'[x] # "none" => target'[x] \in Targets
    BY <1>0, <2>1, <2>2 DEF SumInv, Events
  <2>5. memory' \subseteq {x \in Execs : verdict'[x] # "none"}
    BY <2>1, <2>2 DEF SumInv
  <2> QED BY <2>1, <2>2, <2>3, <2>4, <2>5, SumStays
<1>4. CASE Count(c) /\ verdict[c] = "deny"
  <2>1. /\ UNCHANGED <<memory, target>> /\ stage[c] = "count"
        /\ stage'[c] = "name" /\ \A d \in Conns : d # c => stage'[d] = stage[d]
    BY <1>4, BrokerEffect DEF Count
  <2>2. UNCHANGED <<verdict, named, overflow>> /\ denied' = denied + 1
    BY <1>4 DEF Count
  <2>3. /\ IsFiniteSet(Naming') /\ Cardinality(Naming') = Cardinality(Naming) + 1
        /\ Cardinality(Naming) \in Nat
    BY <1>0, <2>1, NamingMoves
  <2>4. /\ \A d \in Conns : stage'[d] # "idle" => target'[d] \in Targets
        /\ \A x \in Execs : verdict'[x] # "none" => target'[x] \in Targets
    BY <1>0, <2>1, <2>2 DEF SumInv, Events
  <2>5. memory' \subseteq {x \in Execs : verdict'[x] # "none"}
    BY <2>1, <2>2 DEF SumInv
  <2>6. Named' = Named /\ Cardinality(Named) <= MaxNamed
    BY <2>2 DEF Named, SumInv
  <2>7. denied' = overflow' + Total(named', Targets) + Cardinality(Naming')
    BY <1>0, <2>2, <2>3
  <2> QED BY <2>3, <2>4, <2>5, <2>6, <2>7 DEF SumInv
<1>5. CASE NameTarget(c)
  <2>1. /\ UNCHANGED <<memory, target>> /\ stage[c] = "name"
        /\ stage'[c] = "stream" /\ \A d \in Conns : d # c => stage'[d] = stage[d]
    BY <1>5, BrokerEffect DEF NameTarget
  <2>2. UNCHANGED <<verdict, denied>> /\ Name(c) /\ target[c] \in Targets
    BY <1>5, <2>1 DEF NameTarget, SumInv
  <2>3. /\ IsFiniteSet(Naming') /\ Cardinality(Naming') = Cardinality(Naming) - 1
        /\ Cardinality(Naming) \in Nat
    BY <1>0, <2>1, NamingMoves
  <2>4. /\ \A d \in Conns : stage'[d] # "idle" => target'[d] \in Targets
        /\ \A x \in Execs : verdict'[x] # "none" => target'[x] \in Targets
    BY <1>0, <2>1, <2>2 DEF SumInv, Events
  <2>5. memory' \subseteq {x \in Execs : verdict'[x] # "none"}
    BY <2>1, <2>2 DEF SumInv
  <2>6. /\ overflow' + Total(named', Targets) = overflow + Total(named, Targets) + 1
        /\ Cardinality(Named') <= MaxNamed
    BY <2>2, NameAdds DEF SumInv
  <2>7. overflow' \in Nat /\ Total(named', Targets) \in Nat
    BY <2>2, NameTypes, TotalNat, RunAssumption
  <2>8. denied' = overflow' + Total(named', Targets) + Cardinality(Naming')
    BY <1>0, <2>2, <2>3, <2>6, <2>7
  <2> QED BY <2>3, <2>4, <2>5, <2>6, <2>8 DEF SumInv
<1> QED
  BY <1>1, <1>2, <1>3, <1>4, <1>5

LEMMA SumExec ==
  ASSUME SumInv, EventTypes, NEW x \in Execs, ExecDecided(x)
  PROVE  SumInv'
<1>1. /\ UNCHANGED <<stage, denied, named, overflow>> /\ memory' = memory \cup {x}
      /\ x \in Events /\ \A c \in Conns : c # x /\ c \in Events
  BY RunAssumption DEF ExecDecided, Events
<1>2. /\ verdict'[x] # "none" /\ \A e \in Events : e # x => verdict'[e] = verdict[e]
      /\ target'[x] \in Targets /\ \A e \in Events : e # x => target'[e] = target[e]
  BY <1>1 DEF ExecDecided, EventTypes
<1>3. /\ \A d \in Conns : stage'[d] # "idle" => target'[d] \in Targets
      /\ \A y \in Execs : verdict'[y] # "none" => target'[y] \in Targets
  BY <1>1, <1>2 DEF SumInv, Events
<1>4. memory' \subseteq {y \in Execs : verdict'[y] # "none"}
  BY <1>1, <1>2 DEF SumInv, Events
<1>5. Naming' = Naming
  BY <1>1 DEF Naming
<1> QED BY <1>1, <1>3, <1>4, <1>5, SumStays

LEMMA SumDrain == ASSUME SumInv, EventTypes, Drain PROVE SumInv'
<1>1. PICK x \in memory :
        IF verdict[x] = "deny" THEN denied' = denied + 1 /\ Name(x)
        ELSE UNCHANGED <<denied, named, overflow>>
  BY DEF Drain
<1>2. UNCHANGED <<verdict, target, stage, memory>> /\ target[x] \in Targets
  BY DEF Drain, SumInv
<1>3. Naming' = Naming
  BY <1>2 DEF Naming
<1>4. CASE verdict[x] # "deny"
  BY <1>1, <1>2, <1>3, <1>4, SumStays DEF SumInv
<1>5. CASE verdict[x] = "deny"
  <2>1. denied' = denied + 1 /\ Name(x)
    BY <1>1, <1>5
  <2>2. /\ overflow' + Total(named', Targets) = overflow + Total(named, Targets) + 1
        /\ Cardinality(Named') <= MaxNamed
    BY <1>2, <2>1, NameAdds DEF SumInv
  <2>3. /\ overflow' \in Nat /\ Total(named', Targets) \in Nat
        /\ overflow \in Nat /\ Total(named, Targets) \in Nat
    BY <2>1, NameTypes, TotalNat, RunAssumption DEF EventTypes
  <2>4. Cardinality(Naming) \in Nat
    BY FS_CardinalityType DEF SumInv
  <2>5. denied = overflow + Total(named, Targets) + Cardinality(Naming)
    BY DEF SumInv
  <2>6. denied' = overflow' + Total(named', Targets) + Cardinality(Naming)
    BY <2>1, <2>2, <2>3, <2>4, <2>5
  <2> QED BY <1>2, <1>3, <2>2, <2>6 DEF SumInv
<1> QED BY <1>4, <1>5

LEMMA SumStep == EventInv /\ SumInv /\ [Next]_vars => SumInv'
<1> SUFFICES ASSUME EventInv, SumInv, [Next]_vars PROVE SumInv'
  OBVIOUS
<1>0. EventTypes
  BY DEF EventInv
<1>1. CASE \/ Refuses \/ Load \/ CheckSignature \/ PruneProvider \/ VerifyPins \/ AddWorkspace
           \/ BindToken \/ Register \/ RecordPolicy \/ IssueToken \/ SelectTier \/ EnterPhase
           \/ OpenStream \/ Listen \/ BuildFails \/ StartAgent
  <2>1. UNCHANGED eventVars
    BY <1>1 DEF Refuses, Load, CheckSignature, PruneProvider, VerifyPins, AddWorkspace,
      BindToken, Register, RecordPolicy, IssueToken, SelectTier, EnterPhase, OpenStream, Listen,
      BuildFails, StartAgent, Quiet
  <2> QED BY <2>1, SumFrame
<1>2. CASE AgentDies \/ CellAnswers \/ Drained \/ Unlink \/ WriteResult \/ Deregister
  BY <1>2, SumFrame DEF AgentDies, CellAnswers, Drained, Unlink, WriteResult, Deregister
<1>3. CASE \E c \in Conns : Connect(c) \/ Decide(c) \/ Count(c) \/ NameTarget(c) \/ Stream(c)
  BY <1>0, <1>3, SumConn
<1>4. CASE \E x \in Execs : ExecDecided(x)
  BY <1>0, <1>4, SumExec
<1>5. CASE Drain
  BY <1>0, <1>5, SumDrain
<1>6. CASE AppendExecs \/ Crash
  <2>1. UNCHANGED <<verdict, target, stage, denied, named, overflow>> /\ memory' = {}
    BY <1>6 DEF AppendExecs, Crash
  <2>2. Naming' = Naming
    BY <2>1 DEF Naming
  <2> QED BY <2>1, <2>2, SumStays DEF SumInv
<1>7. CASE UNCHANGED vars
  BY <1>7, SumFrame DEF vars
<1> QED
  BY StepCases, <1>1, <1>2, <1>3, <1>4, <1>5, <1>6, <1>7

\* Of any number of broker threads, each of which counts a denial and names its target
\* in two steps, the summary adds up once they are through: the denials are the counts
\* of the targets it names and of those past the cap (summary.rs:73-110,
\* note_denied_target).
THEOREM RunAddsUp == Spec => []SummaryAddsUp
<1>1. Init => SumInv
  BY SumInit
<1>2. EventInv /\ SumInv /\ [Next]_vars => SumInv'
  BY SumStep
<1>3. EventInv /\ SumInv => SummaryAddsUp
  <2> SUFFICES ASSUME EventInv, SumInv PROVE SummaryAddsUp
    OBVIOUS
  <2>0. EventTypes
    BY DEF EventInv
  <2>1. ASSUME \A c \in Conns : stage[c] # "name"
        PROVE  denied = overflow + Total(named, Targets)
    <3>1. Naming = {}
      BY <2>1 DEF Naming
    <3>2. denied = overflow + Total(named, Targets) + 0
      BY <3>1, FS_EmptySet DEF SumInv
    <3>3. overflow \in Nat /\ Total(named, Targets) \in Nat
      BY <2>0, TotalNat, RunAssumption DEF EventTypes
    <3> QED BY <3>2, <3>3
  <2> QED
    BY <2>1 DEF SumInv, Named, SummaryAddsUp, Total
<1>4. RunInv => EventInv
  BY DEF RunInv
<1> QED
  BY <1>1, <1>2, <1>3, <1>4, RunInvariant, PTL DEF Spec
=============================================================================
