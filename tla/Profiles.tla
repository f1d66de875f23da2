------------------------------ MODULE Profiles ------------------------------
(***************************************************************************)
(* The authority a profile grants, and what `ql run` may do to it before a *)
(* cell is built (ql-cli: prune.rs, run.rs, token_bind.rs, token_issue.rs; *)
(* ql-profile: lib.rs, policy.rs).  Two axes stand for all: `net`, whose   *)
(* entries are compared exactly (as those of the exec list are), and `rw`, *)
(* whose entries are path grants that contain one another (as those of the *)
(* read-only list do).                                                     *)
(***************************************************************************)
EXTENDS FiniteSets

CONSTANTS
  Domains,     \* entries of an egress allow-list
  Providers,   \* those of them that are model providers
  Paths,       \* path grants
  PathIn       \* the pairs <<a, b>> such that grant b contains grant a

ASSUME ProfilesAssumption ==
  /\ Providers \subseteq Domains
  /\ PathIn \subseteq Paths \X Paths
  /\ \A a \in Paths : <<a, a>> \in PathIn
  /\ \A a, b, c \in Paths : <<a, b>> \in PathIn /\ <<b, c>> \in PathIn => <<a, c>> \in PathIn

Needs == {"nothing", "content or substitute", "content or refuse"}

\* `open` is the negation of network.default_deny.
Profile == [net : SUBSET Domains, open : BOOLEAN, rw : SUBSET Paths,
            enforce : BOOLEAN, need : Needs]

Capability == [net : SUBSET Domains, rw : SUBSET Paths]

Phase == [noEgress : BOOLEAN, only : SUBSET Domains, rw : SUBSET Paths]

-----------------------------------------------------------------------------
(* What a profile lets an agent reach.                                     *)

Reach(p) == IF p.open THEN Domains ELSE p.net

Covers(grants) == {a \in Paths : \E g \in grants : <<a, g>> \in PathIn}

AtMost(p, q) == Reach(p) \subseteq Reach(q) /\ Covers(p.rw) \subseteq Covers(q.rw)

-----------------------------------------------------------------------------
(* The run-time mutations.                                                 *)

\* An empty allow-list that is not default-deny is rejected.
Valid(p) == p.open => p.net # {}

\* The configured provider comes from a file the agent may write: it is looked
\* up, and one that is not in the table leaves the profile alone.
PrunedTo(p, keep) ==
  IF keep \in Providers THEN [p EXCEPT !.net = {d \in @ : d = keep \/ d \notin Providers}] ELSE p

WithWorkspace(p, ws) == [p EXCEPT !.rw = @ \cup {ws}]

\* Of two grants one of which contains the other, the narrower.
Meet(A, B) == {a \in A : \E b \in B : <<a, b>> \in PathIn} \cup
              {b \in B : \E a \in A : <<b, a>> \in PathIn}

Bound(p, c) == [p EXCEPT !.net = @ \cap c.net, !.rw = Meet(@, c.rw)]

\* Mutant: a phase replaces the lists of the profile.
NarrowReplaces(ph, p) ==
  [p EXCEPT !.net = IF ph.noEgress THEN {} ELSE IF ph.only # {} THEN ph.only ELSE @,
            !.open = @ /\ ~ph.noEgress,
            !.rw = IF ph.rw # {} THEN ph.rw ELSE @]

Narrow(ph, p) ==
  [p EXCEPT !.net = IF ph.noEgress THEN {} ELSE IF ph.only # {} THEN @ \cap ph.only ELSE @,
            !.open = @ /\ ~ph.noEgress,
            !.rw = IF ph.rw # {} THEN @ \cap ph.rw ELSE @]

SubtaskCapability(p) == [net |-> p.net, rw |-> p.rw]

\* exec_tier.rs: the strongest content-verified wall the host has.
Tiers(p, lsm, notify) ==
  IF ~p.enforce THEN {"none"} ELSE IF lsm THEN {"lsm"} ELSE IF notify THEN {"notify"} ELSE {}

\* Requirements::unmet, for the one guarantee hosts differ in.
Qualifies(p, tier) == p.need # "content or refuse" \/ tier # "none"
=============================================================================
