----------------------------- MODULE MCExecWall -----------------------------
(* Instances of ExecWall for TLC.                                          *)
EXTENDS ExecWall

CONSTANTS tool, rogue, plain, force

\* `tool` may not be run with `force`; any other approved binary may.
MCArgvDeny == {<<tool, force>>}

\* An approved binary with an argument vector that is denied and one that is not,
\* one that is not approved, and a path that does not exist.
MCAsks == {[file |-> tool, argv |-> plain], [file |-> tool, argv |-> force],
           [file |-> rogue, argv |-> plain], [file |-> Nothing, argv |-> plain]}
=============================================================================
