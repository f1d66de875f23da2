------------------------------ MODULE ArgvRules ------------------------------
(***************************************************************************)
(* The argv rules of a profile (ql-profile, policy.rs), and what of them   *)
(* the Tier-1 exec wall can hold in a kernel map of fixed-size keys        *)
(* (ql-lsm, lib.rs; scripts/lsm-enforce/enforce.bpf.c).  An argument is a  *)
(* sequence of characters; a committed argument vector is the arguments    *)
(* with a NUL after each.                                                  *)
(***************************************************************************)
EXTENDS Naturals, Sequences, SequencesExt

CONSTANTS
  Rules,      \* profile.exec.argv_deny: [digest, all_of (a sequence of arguments)]
  TokenMax,   \* ARGV_TOKEN_MAX
  ArgvMax,    \* ARGV_MAX
  Nul,        \* the terminator
  Chars       \* every other character

ASSUME ArgvAssumption ==
  /\ TokenMax \in Nat /\ ArgvMax \in Nat
  /\ Nul \notin Chars
  /\ \A r \in Rules : r.all_of \in Seq(Seq(Chars \cup {Nul}))

\* evaluate_argv(): some rule of this binary has all its tokens among the
\* arguments; a rule without tokens never matches.
EvaluateArgv(digest, args) ==
  \E r \in Rules : r.digest = digest /\ r.all_of # <<>> /\ ToSet(r.all_of) \subseteq ToSet(args)

\* The single-token rules whose token fits a key.
Keys ==
  {[digest |-> r.digest, token |-> r.all_of[1]] :
     r \in {q \in Rules : Len(q.all_of) = 1 /\ Len(q.all_of[1]) \in 1 .. TokenMax - 1}}

Committed(args) == FoldLeft(LAMBDA bytes, arg : bytes \o Append(arg, Nul), <<>>, args)

\* As much of it as the kernel copies.
Captured(args) ==
  LET bytes == Committed(args) IN
    IF Len(bytes) < ArgvMax THEN bytes ELSE SubSeq(bytes, 1, ArgvMax - 1)

\* Mutant: the token is not cleared at its end.
TokenGoesOn(digest, c, ch) ==
  CASE c.killed -> c
    [] ~c.killed /\ ch # Nul ->
         IF Len(c.token) < TokenMax - 1 THEN [c EXCEPT !.token = Append(@, ch)] ELSE c
    [] ~c.killed /\ ch = Nul ->
         [c EXCEPT !.killed = [digest |-> digest, token |-> c.token] \in Keys]

\* match_argv_byte(): at each NUL the token read so far is looked up; what does
\* not fit a key is left out of the token.
MatchArgvByte(digest, c, ch) ==
  CASE c.killed -> c
    [] ~c.killed /\ ch # Nul ->
         IF Len(c.token) < TokenMax - 1 THEN [c EXCEPT !.token = Append(@, ch)] ELSE c
    [] ~c.killed /\ ch = Nul ->
         [token |-> <<>>,
          killed |-> c.token # <<>> /\ [digest |-> digest, token |-> c.token] \in Keys]

\* bpf_loop(), over the captured bytes.
Scan(digest, bytes) ==
  FoldLeft(LAMBDA c, ch : MatchArgvByte(digest, c, ch), [token |-> <<>>, killed |-> FALSE], bytes)

KernelKills(digest, args) == Scan(digest, Captured(args)).killed

\* The invocations on which the kernel's verdict and the profile's must agree:
\* every rule of the binary fits a key, and every argument a token and the copy.
Representable(digest, args) ==
  /\ \A r \in Rules : r.digest = digest => Len(r.all_of) = 1 /\ Len(r.all_of[1]) \in 1 .. TokenMax - 1
  /\ \A i \in DOMAIN args : Len(args[i]) < TokenMax
  /\ Len(Committed(args)) < ArgvMax
=============================================================================
