------------------------------ MODULE Approval ------------------------------
(***************************************************************************)
(* How a project's lockfiles become an egress allow-list, and how that     *)
(* comes, by way of a signature, to a run: `ql agent export`, `ql compile` *)
(* (crates/ql-compile), `ql profile sign` and the gates of `ql run`.  They *)
(* are processes of their own over the same files, and the lockfiles and   *)
(* profiles may be edited, by the agent too, between any two of their      *)
(* steps.                                                                  *)
(***************************************************************************)
EXTENDS Naturals, FiniteSets

CONSTANTS
  Lockfiles,   \* recognized lockfiles, by path from the project's root
  AtRoot,      \* those directly in the root
  Ecosystem,   \* [Lockfiles -> ecosystem], by the file's name alone
  Registries,  \* [ecosystem -> domains]
  Hosting,     \* SOURCE_HOSTING
  Bundled,     \* the allow-list of a bundled profile
  Wider,       \* a domain that a hand edit adds
  Contents,    \* what a lockfile may hold
  Absent,      \* no such file
  Untracked,   \* lockfiles that git is told to ignore
  ProfileFiles,       \* profile files
  Signers, Trusted,  \* signing keys; those the run trusts
  Commits,     \* commits a profile may be approved for
  Checkouts,   \* what the project may look like: [disk, repo]
  MaxEdits,    \* bound on the edits by hand
  MaxCommands  \* bound on the ql commands

ASSUME ApprovalAssumption ==
  \A c \in Checkouts : c.disk \in [Lockfiles -> Contents \cup {Absent}] /\ c.repo \in BOOLEAN

Nobody == "nobody"

VARIABLES
  disk, head,  \* the lockfiles, and as last committed
  repo,        \* the project is a git repository, with git at hand
  edits,       \* edits made so far
  commands,    \* ql commands given so far
  file,        \* [file -> the profile in it], an allow-list of {} for none
  compiler,    \* `ql compile`: pc, only, seen, found, asked, held
  signer,      \* `ql profile sign`: pc, held
  runner,      \* `ql run`: pc, held, demand, checked
  presented,   \* history: what each signer had before it when it signed
  touched      \* history: lockfiles edited since the run loaded its profile

approvalVars == <<disk, head, repo, edits, commands, file, compiler, signer, runner,
                  presented, touched>>

(* Profiles ***************************************************************)

Pin(l, sha, vcs) == [path |-> l, sha |-> sha, vcs |-> vcs]
Domains(l) == Registries[Ecosystem[l]]
NoSignature == [by |-> Nobody, over |-> {}]

\* `hand` is history: edited by hand, or compiled from a compiled profile.
Blank == [net |-> {}, pins |-> {}, commit |-> Nobody, sig |-> NoSignature, hand |-> FALSE]

\* signing_bytes(): all of a profile but its signature.
SigningBytes(p) == {<<p.net, p.pins, p.commit>>}

Authentic(p) == p.sig.by # Nobody /\ p.sig.over = SigningBytes(p)

(* The files, and who edits them ******************************************)

compilation == <<commands, compiler, signer, runner, presented>>

Edit(l) ==
  /\ edits < MaxEdits
  /\ edits' = edits + 1
  /\ \E c \in (Contents \cup {Absent}) \ {disk[l]} : disk' = [disk EXCEPT ![l] = c]
  /\ touched' = touched \cup {l}
  /\ UNCHANGED <<head, repo, file, compilation>>

GitCommit ==
  /\ repo
  /\ head' = [l \in Lockfiles |-> IF l \in Untracked THEN Absent ELSE disk[l]]
  /\ UNCHANGED <<disk, repo, edits, file, compilation, touched>>

\* A profile is widened by hand, or its signature cut out.
EditProfile(f) ==
  /\ edits < MaxEdits /\ file[f] # Blank
  /\ edits' = edits + 1
  /\ \/ file' = [file EXCEPT ![f].net = @ \cup {Wider}, ![f].hand = TRUE]
     \/ file' = [file EXCEPT ![f].sig = NoSignature]
  /\ UNCHANGED <<disk, head, repo, compilation, touched>>

Command == commands < MaxCommands /\ commands' = commands + 1
Fresh == [Blank EXCEPT !.net = Bundled]

\* `ql agent export`: the bundled profile, verbatim.
Export(f) ==
  /\ Command
  /\ file' = [file EXCEPT ![f] = Fresh]
  /\ UNCHANGED <<disk, head, repo, edits, compiler, signer, runner, presented, touched>>

(* ql compile *************************************************************)

Idle == [pc |-> "idle", only |-> {}, seen |-> {}, found |-> {}, asked |-> {},
         held |-> Blank]
Outside == UNCHANGED <<disk, head, repo, edits, signer, runner, presented, touched>>

\* The whole project, or the one lockfile named with --lockfile.
Compile ==
  /\ compiler.pc = "idle"
  /\ \E only \in {Lockfiles} \cup {{l} : l \in Lockfiles} :
       compiler' = [Idle EXCEPT !.pc = "walk", !.only = only]
  /\ Command /\ UNCHANGED file /\ Outside

\* collect_lockfiles: the files are met, and read, in the directory's order.
Walk(l) ==
  /\ compiler.pc = "walk" /\ l \in compiler.only \ compiler.seen
  /\ compiler' = [compiler EXCEPT !.seen = @ \cup {l},
                    !.found = IF disk[l] = Absent THEN @ ELSE @ \cup {<<l, disk[l]>>}]
  /\ UNCHANGED <<file, commands>> /\ Outside

\* Root lockfiles win; those of packages below count where there are none.
Chosen(found) ==
  LET root == {x \in found : x[1] \in AtRoot} IN IF root = {} THEN found ELSE root

Walked ==
  /\ compiler.pc = "walk" /\ compiler.seen = compiler.only
  /\ compiler' = IF compiler.found = {} THEN Idle
                 ELSE [compiler EXCEPT !.pc = "vcs",
                         !.found = IF compiler.only = Lockfiles THEN Chosen(@) ELSE @]
  /\ UNCHANGED <<file, commands>> /\ Outside

\* vcs_state: `git status --porcelain` has nothing to say of the file.
VcsState(l) ==
  CASE ~repo -> "unknown"
    [] repo /\ (l \in Untracked \/ disk[l] = head[l]) -> "clean"
    [] OTHER -> "dirty"

AskGit(l, sha) ==
  /\ compiler.pc = "vcs" /\ <<l, sha>> \in compiler.found
  /\ \A p \in compiler.asked : p.path # l
  /\ compiler' = [compiler EXCEPT !.asked = @ \cup {Pin(l, sha, VcsState(l))}]
  /\ UNCHANGED <<file, commands>> /\ Outside

\* write_profile, first half: a signed profile is not rewritten.
ReadSource(f) ==
  /\ compiler.pc = "vcs" /\ Cardinality(compiler.asked) = Cardinality(compiler.found)
  /\ file[f] # Blank
  /\ compiler' = IF file[f].sig # NoSignature THEN Idle
                 ELSE [compiler EXCEPT !.pc = "write", !.held = file[f]]
  /\ UNCHANGED <<file, commands>> /\ Outside

Envelope(pins) == Hosting \cup UNION {Domains(p.path) : p \in pins}

\* Mutant: the domains of the lockfiles that were skipped are kept as well.
AppliedAll(p, pins, replace) ==
  [p EXCEPT !.net = (IF replace THEN {} ELSE @) \cup Hosting
                      \cup UNION {Domains(l) : l \in compiler.seen},
            !.pins = pins, !.hand = @ \/ p.pins # {}]

\* apply_to, apply_to_replacing, pin_lockfiles: the pins replace earlier ones.
Applied(p, pins, replace) ==
  [p EXCEPT !.net = IF replace THEN Envelope(pins) ELSE @ \cup Envelope(pins),
            !.pins = pins, !.hand = @ \/ p.pins # {}]

WriteCompiled(f) ==
  /\ compiler.pc = "write"
  /\ \E replace \in BOOLEAN :
       file' = [file EXCEPT ![f] = Applied(compiler.held, compiler.asked, replace)]
  /\ compiler' = Idle
  /\ UNCHANGED commands /\ Outside

(* ql profile sign ********************************************************)

Unsigned == [pc |-> "idle", by |-> Nobody, held |-> Blank]

ReadToSign(f, s) ==
  /\ signer.pc = "idle" /\ file[f] # Blank /\ Command
  /\ signer' = [pc |-> "sign", by |-> s, held |-> file[f]]
  /\ presented' = [presented EXCEPT ![s] = @ \cup {<<file[f].net, file[f].pins>>}]
  /\ UNCHANGED <<disk, head, repo, edits, file, compiler, runner, touched>>

\* --approve-commit sets the commit and carries the pins across.
Attested(p, commit) == IF commit = Nobody THEN p ELSE [p EXCEPT !.commit = commit]

WriteSigned(f) ==
  /\ signer.pc = "sign"
  /\ \E commit \in Commits \cup {Nobody} :
       LET p == Attested(signer.held, commit)
       IN  file' = [file EXCEPT ![f] = [p EXCEPT !.sig = [by |-> signer.by,
                                                          over |-> SigningBytes(p)]]]
  /\ signer' = Unsigned
  /\ UNCHANGED <<disk, head, repo, edits, commands, compiler, runner, presented, touched>>

(* ql run *****************************************************************)

Off == [pc |-> "off", held |-> Blank, demand |-> "nothing", checked |-> {}]

\* check_signature: a signature that is there must verify, and must be there,
\* or be of a trusted signer, if that is demanded.
Accepted(p, demand) ==
  /\ p.sig # NoSignature => Authentic(p)
  /\ demand # "nothing" => p.sig # NoSignature
  /\ demand = "trusted" => p.sig.by \in Trusted

\* check_approved_for: only a signed approval is compared, and only with a
\* commit the operator names.
ApprovedFor(p, expect) ==
  p.sig # NoSignature /\ p.commit # Nobody /\ expect # Nobody => p.commit = expect

Judging == UNCHANGED <<disk, head, repo, edits, commands, file, compiler, signer,
                       presented, touched>>

LoadAndCheck(f) ==
  /\ runner.pc = "off" /\ file[f] # Blank /\ Command
  /\ \E demand \in {"nothing", "signed", "trusted"}, expect \in Commits \cup {Nobody} :
       /\ Accepted(file[f], demand) /\ ApprovedFor(file[f], expect)
       /\ runner' = [Off EXCEPT !.pc = "pins", !.held = file[f], !.demand = demand]
  /\ touched' = {}
  /\ UNCHANGED <<disk, head, repo, edits, file, compiler, signer, presented>>

\* Mutant: a pinned lockfile that is gone is passed over.
VerifyPinThere(p) ==
  /\ runner.pc = "pins" /\ p \in runner.held.pins \ runner.checked
  /\ runner' = IF disk[p.path] \in {p.sha, Absent}
               THEN [runner EXCEPT !.checked = @ \cup {p}] ELSE Off
  /\ Judging

\* verify_pins reads each pinned lockfile; one that is gone or changed refuses
\* the run.
VerifyPin(p) ==
  /\ runner.pc = "pins" /\ p \in runner.held.pins \ runner.checked
  /\ runner' = IF disk[p.path] = p.sha THEN [runner EXCEPT !.checked = @ \cup {p}] ELSE Off
  /\ Judging

Start ==
  /\ runner.pc = "pins" /\ runner.checked = runner.held.pins
  /\ runner' = [runner EXCEPT !.pc = "started"]
  /\ Judging

End ==
  /\ runner.pc = "started" /\ runner' = Off
  /\ Judging

-----------------------------------------------------------------------------
\* A checkout, with a bundled profile exported to start from.
ApprovalInit ==
  /\ \E c \in Checkouts : disk = c.disk /\ repo = c.repo
  /\ head = [l \in Lockfiles |-> IF repo /\ l \notin Untracked THEN disk[l] ELSE Absent]
  /\ edits = 0 /\ commands = 0
  /\ file = [f \in ProfileFiles |-> Fresh]
  /\ compiler = Idle /\ signer = Unsigned /\ runner = Off
  /\ presented = [s \in Signers |-> {}] /\ touched = {}

CompileStep ==
  \/ Compile \/ Walked
  \/ \E l \in Lockfiles : Walk(l)
  \/ \E x \in compiler.found : AskGit(x[1], x[2])
  \/ \E f \in ProfileFiles : ReadSource(f) \/ WriteCompiled(f)

RunGate ==
  \/ Start \/ End
  \/ \E f \in ProfileFiles : LoadAndCheck(f)
  \/ \E p \in runner.held.pins : VerifyPin(p)

ApprovalNext ==
  \/ GitCommit \/ CompileStep \/ RunGate
  \/ \E l \in Lockfiles : Edit(l)
  \/ \E f \in ProfileFiles : \/ EditProfile(f) \/ Export(f) \/ WriteSigned(f)
                      \/ \E s \in Signers : ReadToSign(f, s)
=============================================================================
