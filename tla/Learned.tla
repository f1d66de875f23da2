------------------------------ MODULE Learned ------------------------------
(***************************************************************************)
(* What is made of a finished trace: the profile `ql learn` synthesizes    *)
(* (ql-learn/src/digest.rs, synth.rs), and what `ql run --observe` says of *)
(* the run under a profile (observe.rs, ql-profile/src/eval.rs). A file    *)
(* stands for its own digest.                                              *)
(***************************************************************************)
EXTENDS Tracing

CONSTANTS Readable,         \* files `ql` can open to hash
          Secrets,          \* well-known secret places
          Dangerous         \* system calls denied unless seen

ExecEvents == {events[i] : i \in {i \in DOMAIN events : events[i].kind = "exec"}}

\* executed_paths and hash_executables.
Executed == {e.path : e \in {e \in ExecEvents : ~e.failed}}
Hashed == {p \in Executed \cap Absolute : Binary[p] \in Readable}

\* A secret is denied unless a path that was opened names it.
Untouched == Secrets \ {o.place : o \in {o \in reads \cup writes : o.shown}}

\* Enforced only when every binary was hashed: part of a list breaks the rerun.
Synthesize ==
    LET allow == Executed \cap Absolute
    IN  [enforce |-> allow # {} /\ Hashed = allow,
         allowExec |-> allow,
         digests |-> {Binary[p] : p \in Hashed},
         denied |-> Untouched,
         syscalls |-> Dangerous \ syscalls]

\* What observing the same run under a profile reports as would-deny.
AdmitsExec(profile, path) ==
    profile.enforce => path \in Hashed /\ Binary[path] \in profile.digests
ExecFindings(profile) == {e \in ExecEvents : ~AdmitsExec(profile, e.path)}
FileFindings(profile) == {o \in reads \cup writes : o.shown /\ o.place \in profile.denied}

\* `ql run --observe --strict`: any finding fails the run.
StrictPasses(profile) == ExecFindings(profile) = {} /\ FileFindings(profile) = {}
=============================================================================
