----------------------------- MODULE LearnLife -----------------------------
(***************************************************************************)
(* The ways to a policy: a trace of the agent, uncontained, from which     *)
(* `ql learn` writes a profile; the stream of a contained run's decisions, *)
(* on which `ql replay` tries a changed one; and the project's lockfiles,  *)
(* from which `ql compile` writes an allow-list that is signed and run.    *)
(***************************************************************************)
EXTENDS Learned, ProcTree, Replay, Approval

VARIABLES workflow,         \* "learn", "replay" or "approve"
          profile           \* what `ql learn` wrote, at most one

learnVars == <<traceVars, replayVars, approvalVars, workflow, profile>>

Learn == /\ ended /\ profile = {}
         /\ profile' = {Synthesize}
         /\ UNCHANGED <<traceVars, replayVars, approvalVars, workflow>>

\* What a workflow does not use stays where it starts.
LearnInit ==
  /\ workflow \in {"learn", "replay", "approve"} /\ profile = {}
  /\ TraceInit /\ ReplayInit /\ ApprovalInit
  /\ workflow # "learn" => ran = Chain(Binary[CHOOSE c \in Commands : TRUE])
  /\ workflow # "replay" => policy = (CHOOSE p \in Policies : TRUE) /\ ~brokered
  /\ workflow # "approve" => disk = (CHOOSE c \in Checkouts : TRUE).disk
LearnNext ==
  \/ /\ workflow = "learn"
     /\ \/ TraceNext /\ UNCHANGED <<replayVars, approvalVars, workflow, profile>>
        \/ Learn
  \/ /\ workflow = "replay" /\ ReplayNext
     /\ UNCHANGED <<traceVars, approvalVars, workflow, profile>>
  \/ /\ workflow = "approve" /\ ApprovalNext
     /\ UNCHANGED <<traceVars, replayVars, workflow, profile>>
LearnSpec == LearnInit /\ [][LearnNext]_learnVars

(* What learning promises *************************************************)

\* A learned profile is enforced exactly when every binary that ran could be
\* hashed, and then it pins those and no other, whatever was interleaved with them:
\* the same run again is denied none of them, and nothing that was only tried on the
\* way is approved. Observed under it, the run has no finding but the candidates that
\* were tried and never ran.
PinnedAgain ==
    \A p \in profile :
       plain => /\ p.enforce <=> ran \subseteq Readable
                /\ p.enforce => /\ p.digests = ran
                                /\ \A e \in ExecFindings(p) : e.failed

\* What the agent used stays usable: no place it opened is denied by the profile
\* learned from it, in whatever order it read and wrote there, and no system call
\* it made is.
TouchedStays ==
    \A p \in profile :
       plain => /\ places \cap p.denied = {} /\ used \cap p.syscalls = {}
                /\ FileFindings(p) = {}

\* `ql run --observe --strict` does not fail the run a profile was learned from,
\* unless the agent tried programs that were not there.
StrictAgain ==
    \A p \in profile : plain /\ ~(\E e \in ExecEvents : e.failed) => StrictPasses(p)

\* The same run under the profile learned from it is denied nothing.
SameRunAgain == PinnedAgain /\ TouchedStays /\ StrictAgain

\* What a process asked for between the fork of record n's process and record n.
Since(log, n, pid) ==
    {m \in ExecsOf(log, pid) : log[n].forked < log[m].seq /\ log[m].seq < log[n].seq}

\* Egress is credited to the program that opened it: a connect that the process
\* tree hangs off an exec was made by that exec's binary, unless the process was
\* forked by a parent that has asked for another exec since.
EgressOwner ==
    LET log == Written
    IN  \A n \in Connected(log) :
          LET owner == Owner(log, n)
          IN  /\ plain /\ owner # 0
              /\ \/ ExecsOf(log, log[n].pid) # {}
                 \/ Since(log, n, Resolved(log, n)) = {}
              => Binary[log[owner].path] = log[n].truth

\* The tree claims only what ran under what: a record has one line, never one under
\* a candidate that was refused, and the record above it is of the program that
\* forked the process, unless that parent has asked for another exec since
\* (proctree.rs:31-33, 370-372).
LineageTold ==
    LET log == Written
    IN  \A n \in Execed(log) :
          /\ Drawn(log, n) = 1
          /\ \A m \in Under(log, n) :
                /\ ~log[m].failed
                /\ plain /\ Since(log, n, log[n].ppid) = {}
                   => Binary[log[m].path] = log[n].truth

\* The process tree credits children and connects to the program they came from.
TreeTold == EgressOwner /\ LineageTold

(* What compiling and signing promise *************************************)

\* A run that demands a signature starts only under domains and lockfile pins that
\* the signer had before him together, whatever was compiled, signed again or edited
\* meanwhile, and with every pinned lockfile as it was when the domains were derived
\* from it, unless it was edited since the run began (run.rs:213-216).
StartsAsApproved ==
    runner.pc = "started" =>
       LET p == runner.held
       IN  /\ runner.demand # "nothing" => <<p.net, p.pins>> \in presented[p.sig.by]
           /\ \A q \in p.pins : q.path \notin touched => disk[q.path] = q.sha

\* Every domain that compiling adds to a profile is that of a lockfile the profile
\* is pinned to, through merging, signing and approving for a commit, unless the
\* profile was edited by hand or compiled again from a compiled one, which keeps
\* the domains of the earlier lockfiles without their pins.
RegistriesPinned ==
    \A f \in ProfileFiles :
       LET p == file[f]
       IN  ~p.hand => p.net \subseteq Bundled \cup (IF p.pins = {} THEN {}
                                                    ELSE Envelope(p.pins))

\* ql-learn/src/lib.rs:49-50: an enforced learned profile "pins the WHOLE exec chain
\* instead of denying the interpreter".
WholeChainPinned ==
    \A p \in profile : p.enforce =>
       \A path \in p.allowExec : Chain(Binary[path]) \subseteq p.digests
=============================================================================
