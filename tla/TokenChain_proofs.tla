-------------------------- MODULE TokenChain_proofs --------------------------
(***************************************************************************)
(* Theorems about TokenChain, for any keys, grants and chain lengths.      *)
(*                                                                         *)
(* The verifier's loop is the induction: Walked says what the links the   *)
(* loop has accepted so far imply for every action, and is preserved by   *)
(* one more turn because is_subset_of implies permits (SubsetPermits).    *)
(***************************************************************************)
EXTENDS TokenChain, WellFoundedInduction, TLAPS

(* The grammar of grants.                                                  *)

LEMMA PrefixTransitive ==
  ASSUME NEW r \in Seq(STRING), NEW s \in Seq(STRING), NEW t \in Seq(STRING),
         Prefix(r, s), Prefix(s, t)
  PROVE  Prefix(r, t)
BY DEF Prefix

\* What a grant covers, a grant that contains it covers too.
LEMMA WithinCovers ==
  ASSUME NEW g \in Grants, NEW h \in Grants, NEW a \in Actions,
         Within(g, h), PathWithin(a.path, FALSE, g)
  PROVE  g.axis = h.axis /\ PathWithin(a.path, FALSE, h)
<1>1. g.path \in Seq(STRING) /\ h.path \in Seq(STRING) /\ a.path \in Seq(STRING)
  BY TokenAssumption
<1>2. g.axis = h.axis /\ PathWithin(g.path, g.deep, h)
  BY DEF Within
<1>3. CASE a.path = g.path /\ ~g.deep
  BY <1>2, <1>3 DEF PathWithin
<1>4. CASE g.deep /\ Prefix(g.path, a.path)
  BY <1>1, <1>2, <1>4, PrefixTransitive DEF PathWithin
<1>. QED
  BY <1>2, <1>3, <1>4, TokenAssumption DEF PathWithin

\* is_subset_of() is sound for permits(): a narrower capability permits no more.
LEMMA SubsetPermits ==
  ASSUME NEW cap \in SUBSET Grants, NEW parent \in SUBSET Grants,
         NEW a \in Actions, IsSubsetOf(cap, parent), Permits(cap, a)
  PROVE  Permits(parent, a)
<1>1. PICK g \in cap : /\ g.axis = a.axis \/ (a.axis = "read" /\ g.axis = "write")
                       /\ PathWithin(a.path, FALSE, g)
  BY DEF Permits
<1>2. PICK h \in parent : Within(g, h)
  BY DEF IsSubsetOf
<1>3. g.axis = h.axis /\ PathWithin(a.path, FALSE, h)
  BY <1>1, <1>2, WithinCovers
<1>. QED
  BY <1>1, <1>3 DEF Permits

LEMMA SubsetReflexive ==
  ASSUME NEW cap \in SUBSET Grants, NEW only
  PROVE  IsSubsetOf(Narrowed(cap, only), cap)
BY DEF IsSubsetOf, Within, PathWithin, Narrowed

LEMMA SeqGrows ==
  ASSUME NEW S, NEW T, S \subseteq T, NEW s \in Seq(S)
  PROVE  s \in Seq(T)
OBVIOUS

-----------------------------------------------------------------------------
(* Tokens are only ever added.                                             *)

Grown ==
  /\ Len(tokens) <= Len(tokens')
  /\ \A t \in 1..Len(tokens) : tokens'[t] = tokens[t]

\* A step that signs x.
LEMMA Signed ==
  ASSUME TypeOK, NEW x \in TokenType, x.parent <= Len(tokens),
         tokens' = Append(tokens, x)
  PROVE  /\ tokens' \in Seq(TokenType)
         /\ \A t \in DOMAIN tokens' : tokens'[t].parent < t
         /\ Len(tokens') = Len(tokens) + 1
         /\ tokens'[Len(tokens')] = x
         /\ Grown
<1>1. tokens \in Seq(TokenType) /\ \A t \in DOMAIN tokens : tokens[t].parent < t
  BY DEF TypeOK
<1>2. /\ tokens' \in Seq(TokenType)
      /\ Len(tokens') = Len(tokens) + 1
      /\ \A t \in 1..Len(tokens) : tokens'[t] = tokens[t]
      /\ tokens'[Len(tokens')] = x
  BY <1>1
<1>3. \A t \in DOMAIN tokens' : tokens'[t].parent < t
  <2>. SUFFICES ASSUME NEW t \in 1..(Len(tokens) + 1) PROVE tokens'[t].parent < t
    BY <1>1, <1>2
  <2>1. CASE t = Len(tokens) + 1
    BY <1>1, <1>2, <2>1 DEF TokenType
  <2>2. CASE t \in 1..Len(tokens)
    BY <1>1, <1>2, <2>2
  <2>. QED
    BY <1>1, <2>1, <2>2
<1>. QED
  BY <1>1, <1>2, <1>3 DEF Grown

\* The bundles of a state, and one more, in a state with one more token.
LEMMA BundleAdded ==
  ASSUME TypeOK, Len(tokens') = Len(tokens) + 1, tokens' \in Seq(TokenType),
         NEW c \in Seq(1..(Len(tokens) + 1)), NEW r \in Keys, NEW k \in Keys,
         bundles' \subseteq bundles \cup {[chain |-> c, root |-> r, seed |-> k]}
  PROVE  bundles' \subseteq [chain : Seq(DOMAIN tokens'), root : Keys, seed : Keys]
<1>1. tokens \in Seq(TokenType) /\ bundles \subseteq [chain : Seq(DOMAIN tokens), root : Keys, seed : Keys]
  BY DEF TypeOK
<1>2. DOMAIN tokens \subseteq DOMAIN tokens' /\ DOMAIN tokens' = 1..(Len(tokens) + 1)
  BY <1>1
<1>3. ASSUME NEW b \in bundles
      PROVE  b.chain \in Seq(DOMAIN tokens') /\ b \in [chain : Seq(DOMAIN tokens'), root : Keys, seed : Keys]
  <2>1. b.chain \in Seq(DOMAIN tokens) /\ b.root \in Keys /\ b.seed \in Keys
        /\ b = [chain |-> b.chain, root |-> b.root, seed |-> b.seed]
    BY <1>1
  <2>2. b.chain \in Seq(DOMAIN tokens')
    BY <1>2, <2>1, SeqGrows
  <2>. QED
    BY <2>1, <2>2
<1>. QED
  BY <1>2, <1>3

-----------------------------------------------------------------------------
(* What the steps that sign a token do.                                    *)

LEMMA ExpiryNat == ASSUME TypeOK PROVE DefaultExpiry(clock) \in Nat \ {0}
BY TokenAssumption DEF TypeOK, DefaultExpiry

LEMMA IssueEffect ==
  ASSUME TypeOK, NEW authority \in Keys, NEW k \in Keys, IssueRoot(authority, k)
  PROVE  \E x \in TokenType :
           /\ x.parent = NoParent /\ x.issuer = authority /\ x.signer = authority
           /\ x.subject = k
           /\ tokens' = Append(tokens, x)
           /\ bundles' = bundles \cup
                {[chain |-> <<Len(tokens')>>, root |-> authority, seed |-> k]}
           /\ UNCHANGED <<clock, written, checks>>
<1>1. PICK cap \in Caps, notAfter \in {0, DefaultExpiry(clock)} :
        tokens' = Append(tokens, Token(authority, k, cap, NoParent, notAfter, authority))
  BY DEF IssueRoot, Sign
<1>2. Token(authority, k, cap, NoParent, notAfter, authority) \in TokenType
  BY ExpiryNat, TokenAssumption DEF Token, TokenType, NoParent
<1>3. /\ bundles' = bundles \cup
           {[chain |-> <<Len(tokens')>>, root |-> authority, seed |-> k]}
      /\ UNCHANGED <<clock, written, checks>>
  BY DEF IssueRoot
<1>. QED
  BY <1>1, <1>2, <1>3 DEF Token

LEMMA ChainsAreSequences == ASSUME TypeOK PROVE Chains \subseteq Seq(1..Len(tokens))
<1>. SUFFICES ASSUME NEW n \in 0..MaxChain, NEW c \in [1..n -> 1..Len(tokens)]
              PROVE  c \in Seq(1..Len(tokens))
  BY DEF Chains
<1>1. n \in Nat
  BY TokenAssumption
<1>. QED
  BY <1>1

LEMMA DelegateEffect ==
  ASSUME TypeOK, NEW c \in Chains, NEW root \in Keys, NEW k \in Keys,
         DelegateBundle(c, root, k)
  PROVE  LET leaf == LeafOf(c) IN
         /\ c \in Seq(1..Len(tokens)) /\ c # <<>> /\ leaf \in 1..Len(tokens)
         /\ ChainValid(c, {root}, clock)
         /\ \E x \in TokenType :
              /\ x.parent = leaf /\ x.issuer = tokens[leaf].subject
              /\ x.signer = tokens[leaf].subject /\ x.subject = k
              /\ IsSubsetOf(x.cap, tokens[leaf].cap)
              /\ x.notAfter = Clamped(DefaultExpiry(clock), tokens[leaf].notAfter)
              /\ tokens' = Append(tokens, x)
              /\ bundles' = bundles \cup
                   {[chain |-> Append(c, Len(tokens')), root |-> root, seed |-> k]}
              /\ UNCHANGED <<clock, written, checks>>
<1>. DEFINE leaf == LeafOf(c)
<1>1. c \in Seq(1..Len(tokens))
  BY ChainsAreSequences
<1>2. ChainValid(c, {root}, clock)
  BY DEF DelegateBundle
<1>3. c # <<>> /\ leaf \in 1..Len(tokens)
  BY <1>1, <1>2 DEF ChainValid, RootAccepted, LeafOf
<1>4. PICK only \in Caps :
        tokens' = Append(tokens, Token(tokens[leaf].subject, k,
                                  Narrowed(tokens[leaf].cap, only), leaf,
                                  Clamped(DefaultExpiry(clock), tokens[leaf].notAfter),
                                  tokens[leaf].subject))
  BY DEF DelegateBundle, Sign, Child
<1>5. tokens[leaf] \in TokenType
  BY <1>3 DEF TypeOK
<1>6. /\ Narrowed(tokens[leaf].cap, only) \in SUBSET Grants
      /\ tokens[leaf].cap \in SUBSET Grants /\ tokens[leaf].subject \in Keys
  BY <1>5 DEF Narrowed, TokenType
<1>7. Clamped(DefaultExpiry(clock), tokens[leaf].notAfter) \in Nat
  BY <1>5, ExpiryNat DEF Clamped, TokenType
<1>8. Token(tokens[leaf].subject, k, Narrowed(tokens[leaf].cap, only), leaf,
            Clamped(DefaultExpiry(clock), tokens[leaf].notAfter), tokens[leaf].subject)
        \in TokenType
  BY <1>3, <1>6, <1>7 DEF Token, TokenType
<1>9. IsSubsetOf(Narrowed(tokens[leaf].cap, only), tokens[leaf].cap)
  BY <1>6, SubsetReflexive
<1>10. /\ bundles' = bundles \cup
            {[chain |-> Append(c, Len(tokens')), root |-> root, seed |-> k]}
       /\ UNCHANGED <<clock, written, checks>>
  BY DEF DelegateBundle
<1>. QED
  BY <1>1, <1>2, <1>3, <1>4, <1>8, <1>9, <1>10 DEF Token

LEMMA WriteEffect ==
  ASSUME TypeOK, NEW body \in Bodies, Write(body)
  PROVE  /\ \E x \in TokenType : x.parent <= Len(tokens) /\ tokens' = Append(tokens, x)
         /\ UNCHANGED <<clock, bundles, checks>> /\ written' = written \cup {Len(tokens')}
<1>1. PICK parent \in 0..Len(tokens) :
        tokens' = Append(tokens, Token(body.issuer, body.subject, body.cap, parent,
                                       body.notAfter, body.signer))
  BY DEF Write, Sign
<1>2. tokens \in Seq(TokenType)
  BY DEF TypeOK
<1>3. Token(body.issuer, body.subject, body.cap, parent, body.notAfter, body.signer)
        \in TokenType
  BY <1>2, TokenAssumption DEF Token, TokenType
<1>. QED
  BY <1>1, <1>2, <1>3 DEF Token, Write

-----------------------------------------------------------------------------
VerifierTypes ==
  /\ state \in [Verifiers -> {"idle", "root", "links", "admitted", "refused"}]
  /\ chain \in [Verifiers -> Seq(1..Len(tokens))]
  /\ action \in [Verifiers -> SUBSET ActionType]
  /\ at \in [Verifiers -> 0..MaxTime]
  /\ pos \in [Verifiers -> Nat]
  /\ \A v \in Verifiers : pos[v] <= Len(chain[v])

\* A step that signs a token and one that leaves the verifiers alone.
LEMMA VerifiersFramed ==
  ASSUME TypeOK, UNCHANGED checks, tokens' \in Seq(TokenType), Grown
  PROVE  VerifierTypes'
<1>1. VerifierTypes
  BY DEF TypeOK, VerifierTypes
<1>2. 1..Len(tokens) \subseteq 1..Len(tokens')
  BY DEF Grown, TypeOK
<1>3. chain \in [Verifiers -> Seq(1..Len(tokens'))]
  <2>1. ASSUME NEW v \in Verifiers PROVE chain[v] \in Seq(1..Len(tokens'))
    <3>1. chain[v] \in Seq(1..Len(tokens))
      BY <1>1 DEF VerifierTypes
    <3>. QED
      BY <1>2, <3>1, SeqGrows
  <2>. QED
    BY <1>1, <2>1 DEF VerifierTypes
<1>. QED
  BY <1>1, <1>3 DEF VerifierTypes, checks

\* A verifier that has not accepted the root has accepted nothing.
NotStarted == \A v \in Verifiers : state[v] \in {"idle", "root"} => pos[v] = 0

LEMMA VerifierStepTypes ==
  ASSUME TypeOK, NotStarted, NEW v \in Verifiers,
         Present(v) \/ CheckRoot(v) \/ CheckLink(v) \/ CheckAction(v)
  PROVE  VerifierTypes' /\ NotStarted' /\ UNCHANGED <<clock, tokens, bundles, written>>
<1>1. VerifierTypes /\ clock \in 0..MaxTime
  BY DEF TypeOK, VerifierTypes
<1>2. UNCHANGED <<clock, tokens, bundles, written>>
  BY DEF Present, CheckRoot, CheckLink, CheckAction
<1>3. CASE Present(v)
  <2>1. PICK c \in Chains : chain' = [chain EXCEPT ![v] = c]
    BY <1>3 DEF Present
  <2>2. c \in Seq(1..Len(tokens))
    BY ChainsAreSequences
  <2>3. /\ state[v] = "idle" /\ at' = [at EXCEPT ![v] = clock]
        /\ state' = [state EXCEPT ![v] = "root"] /\ UNCHANGED <<action, pos>>
    BY <1>3 DEF Present
  <2>4. pos[v] = 0
    BY <2>3 DEF NotStarted
  <2>. QED
    BY <1>1, <1>2, <2>1, <2>2, <2>3, <2>4 DEF VerifierTypes, NotStarted
<1>4. ASSUME CheckRoot(v) \/ CheckLink(v) \/ CheckAction(v)
      PROVE  /\ UNCHANGED <<chain, at>>
             /\ state[v] \in {"root", "links"}
             /\ \/ Refuse(v)
                \/ /\ state' = [state EXCEPT ![v] = "links"]
                   /\ pos' = [pos EXCEPT ![v] = 1] /\ chain[v] # <<>>
                \/ /\ pos' = [pos EXCEPT ![v] = @ + 1] /\ pos[v] < Len(chain[v])
                   /\ state[v] = "links" /\ UNCHANGED state
                \/ state' = [state EXCEPT ![v] = "admitted"] /\ UNCHANGED pos
  <2>1. CASE CheckRoot(v)
    BY <2>1 DEF CheckRoot, RootAccepted
  <2>2. CASE CheckLink(v)
    BY <2>2 DEF CheckLink
  <2>3. CASE CheckAction(v)
    BY <2>3 DEF CheckAction
  <2>. QED
    BY <1>4, <2>1, <2>2, <2>3
<1>5. ASSUME CheckRoot(v) \/ CheckLink(v) \/ CheckAction(v)
      PROVE  action' \in [Verifiers -> SUBSET ActionType]
  <2>1. CASE CheckRoot(v) \/ CheckLink(v)
    BY <1>1, <2>1 DEF VerifierTypes, CheckRoot, CheckLink
  <2>2. CASE CheckAction(v)
    <3>1. PICK r \in [act : Actions, signer : Keys \cup {Nobody}, bound : 1..Len(tokens)] :
            action' = [action EXCEPT ![v] = {r}]
      BY <2>2 DEF CheckAction
    <3>2. r \in ActionType
      BY DEF ActionType
    <3>. QED
      BY <1>1, <3>1, <3>2 DEF VerifierTypes
  <2>. QED
    BY <1>5, <2>1, <2>2
<1>6. ASSUME CheckRoot(v) \/ CheckLink(v) \/ CheckAction(v)
      PROVE  VerifierTypes' /\ NotStarted'
  <2>1. /\ state' \in [Verifiers -> {"idle", "root", "links", "admitted", "refused"}]
        /\ pos' \in [Verifiers -> Nat]
        /\ \A w \in Verifiers : pos'[w] <= Len(chain[w])
        /\ NotStarted'
    <3>. USE DEF VerifierTypes, NotStarted
    <3>1. CASE Refuse(v)
      BY <1>1, <1>4, <1>6, <3>1 DEF Refuse
    <3>2. CASE /\ state' = [state EXCEPT ![v] = "links"]
               /\ pos' = [pos EXCEPT ![v] = 1] /\ chain[v] # <<>>
      <4>1. chain[v] \in Seq(1..Len(tokens)) /\ 1 <= Len(chain[v])
        BY <1>1, <3>2
      <4>. QED
        BY <1>1, <3>2, <4>1
    <3>3. CASE /\ pos' = [pos EXCEPT ![v] = @ + 1] /\ pos[v] < Len(chain[v])
               /\ state[v] = "links" /\ UNCHANGED state
      <4>1. pos[v] + 1 <= Len(chain[v]) /\ pos[v] + 1 \in Nat
        BY <1>1, <3>3
      <4>. QED
        BY <1>1, <3>3, <4>1
    <3>4. CASE state' = [state EXCEPT ![v] = "admitted"] /\ UNCHANGED pos
      BY <1>1, <1>4, <1>6, <3>4
    <3>. QED
      BY <1>4, <1>6, <3>1, <3>2, <3>3, <3>4
  <2>. QED
    BY <1>1, <1>2, <1>4, <1>5, <1>6, <2>1 DEF VerifierTypes
<1>. QED
  BY <1>2, <1>3, <1>6

-----------------------------------------------------------------------------
LEMMA TypesAssembled ==
  ASSUME TypeOK, NotStarted, UNCHANGED <<clock, checks>>, tokens' \in Seq(TokenType),
         \A t \in DOMAIN tokens' : tokens'[t].parent < t, Grown,
         written' \subseteq DOMAIN tokens',
         bundles' \subseteq [chain : Seq(DOMAIN tokens'), root : Keys, seed : Keys]
  PROVE  TypeOK' /\ NotStarted'
<1>1. VerifierTypes'
  BY VerifiersFramed
<1>2. clock' \in 0..MaxTime /\ NotStarted'
  BY DEF TypeOK, NotStarted, checks
<1>. QED
  BY <1>1, <1>2 DEF TypeOK, VerifierTypes

LEMMA TypeStep == TypeOK /\ NotStarted /\ [Next]_vars => TypeOK' /\ NotStarted'
<1>. SUFFICES ASSUME TypeOK, NotStarted, [Next]_vars PROVE TypeOK' /\ NotStarted'
  OBVIOUS
<1>1. CASE Tick
  BY <1>1, TokenAssumption DEF Tick, TypeOK, NotStarted, checks
<1>2. ASSUME NEW authority \in Keys, NEW k \in Keys, IssueRoot(authority, k)
      PROVE  TypeOK' /\ NotStarted'
  <2>1. PICK x \in TokenType :
           /\ x.parent = NoParent
           /\ tokens' = Append(tokens, x)
           /\ bundles' = bundles \cup
                {[chain |-> <<Len(tokens')>>, root |-> authority, seed |-> k]}
           /\ UNCHANGED <<clock, written, checks>>
    BY <1>2, IssueEffect
  <2>2. Len(tokens) \in Nat /\ x.parent <= Len(tokens)
    BY <2>1 DEF TypeOK, NoParent
  <2>3. /\ tokens' \in Seq(TokenType)
        /\ \A t \in DOMAIN tokens' : tokens'[t].parent < t
        /\ Len(tokens') = Len(tokens) + 1 /\ Grown
    BY <2>1, <2>2, Signed
  <2>4. <<Len(tokens')>> \in Seq(1..(Len(tokens) + 1))
    BY <2>2, <2>3
  <2>5. bundles' \subseteq [chain : Seq(DOMAIN tokens'), root : Keys, seed : Keys]
    BY <2>1, <2>3, <2>4, BundleAdded
  <2>6. written' \subseteq DOMAIN tokens'
    BY <2>1, <2>2, <2>3 DEF TypeOK
  <2>. QED
    BY <2>1, <2>3, <2>5, <2>6, TypesAssembled
<1>3. ASSUME NEW k \in Keys, NEW c \in Chains, NEW root \in Keys, DelegateBundle(c, root, k)
      PROVE  TypeOK' /\ NotStarted'
  <2>1. c \in Seq(1..Len(tokens)) /\ LeafOf(c) \in 1..Len(tokens)
    BY <1>3, DelegateEffect
  <2>2. PICK x \in TokenType :
           /\ x.parent = LeafOf(c)
           /\ tokens' = Append(tokens, x)
           /\ bundles' = bundles \cup
                {[chain |-> Append(c, Len(tokens')), root |-> root, seed |-> k]}
           /\ UNCHANGED <<clock, written, checks>>
    BY <1>3, DelegateEffect
  <2>3. Len(tokens) \in Nat /\ x.parent <= Len(tokens)
    BY <2>1, <2>2 DEF TypeOK
  <2>4. /\ tokens' \in Seq(TokenType)
        /\ \A t \in DOMAIN tokens' : tokens'[t].parent < t
        /\ Len(tokens') = Len(tokens) + 1 /\ Grown
    BY <2>2, <2>3, Signed
  <2>6. Append(c, Len(tokens')) \in Seq(1..(Len(tokens) + 1))
    <3>1. 1..Len(tokens) \subseteq 1..(Len(tokens) + 1) /\ Len(tokens') \in 1..(Len(tokens) + 1)
      BY <2>3, <2>4
    <3>2. c \in Seq(1..(Len(tokens) + 1))
      BY <2>1, <3>1, SeqGrows
    <3>. QED
      BY <3>1, <3>2
  <2>7. bundles' \subseteq [chain : Seq(DOMAIN tokens'), root : Keys, seed : Keys]
    BY <2>2, <2>4, <2>6, BundleAdded
  <2>8. written' \subseteq DOMAIN tokens'
    BY <2>2, <2>3, <2>4 DEF TypeOK
  <2>. QED
    BY <2>2, <2>4, <2>7, <2>8, TypesAssembled
<1>4. ASSUME NEW body \in Bodies, Write(body)
      PROVE  TypeOK' /\ NotStarted'
  <2>1. PICK x \in TokenType : x.parent <= Len(tokens) /\ tokens' = Append(tokens, x)
    BY <1>4, WriteEffect
  <2>2. UNCHANGED <<clock, bundles, checks>> /\ written' = written \cup {Len(tokens')}
    BY <1>4, WriteEffect
  <2>3. /\ tokens' \in Seq(TokenType)
        /\ \A t \in DOMAIN tokens' : tokens'[t].parent < t
        /\ Len(tokens') = Len(tokens) + 1 /\ Grown
    BY <2>1, Signed
  <2>5. written' \subseteq DOMAIN tokens'
    <3>1. Len(tokens) \in Nat /\ written \subseteq 1..Len(tokens)
      BY DEF TypeOK
    <3>. QED
      BY <2>2, <2>3, <3>1
  <2>4. bundles' \subseteq [chain : Seq(DOMAIN tokens'), root : Keys, seed : Keys]
    <3>1. DOMAIN tokens \subseteq DOMAIN tokens'
      BY <2>3 DEF TypeOK
    <3>2. ASSUME NEW b \in bundles
          PROVE  b \in [chain : Seq(DOMAIN tokens'), root : Keys, seed : Keys]
      <4>1. b \in [chain : Seq(DOMAIN tokens), root : Keys, seed : Keys]
        BY DEF TypeOK
      <4>2. b.chain \in Seq(DOMAIN tokens')
        BY <3>1, <4>1, SeqGrows
      <4>. QED
        BY <4>1, <4>2
    <3>. QED
      BY <2>2, <3>2
  <2>. QED
    BY <2>2, <2>3, <2>4, <2>5, TypesAssembled
<1>5. ASSUME NEW v \in Verifiers,
             Present(v) \/ CheckRoot(v) \/ CheckLink(v) \/ CheckAction(v)
      PROVE  TypeOK' /\ NotStarted'
  <2>1. VerifierTypes' /\ NotStarted' /\ UNCHANGED <<clock, tokens, bundles, written>>
    BY <1>5, VerifierStepTypes
  <2>. QED
    BY <2>1 DEF TypeOK, VerifierTypes
<1>6. CASE UNCHANGED vars
  BY <1>6 DEF vars, checks, TypeOK, NotStarted
<1>. QED
  BY <1>1, <1>2, <1>3, <1>4, <1>5, <1>6 DEF Next, Delegate

-----------------------------------------------------------------------------
(* The checks as operators of the tokens ts, so that what holds of a chain *)
(* in one state carries over to a state with more tokens.                  *)

Lapsed(ts, t, now) == ts[t].notAfter # 0 /\ now > ts[t].notAfter

Root(ts, c, roots, now) ==
  /\ c # <<>>
  /\ ts[c[1]].parent = NoParent
  /\ ts[c[1]].issuer \in roots
  /\ ts[c[1]].signer = ts[c[1]].issuer
  /\ ~Lapsed(ts, c[1], now)

Link(ts, prev, cur, now) ==
  /\ ts[cur].issuer = ts[prev].subject
  /\ ts[cur].parent = prev
  /\ IsSubsetOf(ts[cur].cap, ts[prev].cap)
  /\ ts[cur].signer = ts[cur].issuer
  /\ ~Lapsed(ts, cur, now)

Links(ts, c, n, now) == \A i \in 1..(n - 1) : Link(ts, c[i], c[i + 1], now)

Valid(ts, c, roots, now) == Root(ts, c, roots, now) /\ Links(ts, c, Len(c), now)

Acceptable(ts, leaf, r) ==
  r.signer = ts[leaf].subject /\ r.bound = leaf /\ Permits(ts[leaf].cap, r.act)

LEMMA Forms ==
  ASSUME NEW c, NEW roots, NEW now, NEW prev, NEW cur, NEW leaf, NEW r
  PROVE  /\ RootAccepted(c, roots, now) <=> Root(tokens, c, roots, now)
         /\ LinkValid(prev, cur, now) <=> Link(tokens, prev, cur, now)
         /\ ChainValid(c, roots, now) <=> Valid(tokens, c, roots, now)
         /\ ActionValid(leaf, r) <=> Acceptable(tokens, leaf, r)
<1>1. RootAccepted(c, roots, now) <=> Root(tokens, c, roots, now)
  BY DEF RootAccepted, Root, SignatureValid, Expired, Lapsed
<1>2. \A p, q : LinkValid(p, q, now) <=> Link(tokens, p, q, now)
  BY DEF LinkValid, Link, SignatureValid, Expired, Lapsed
<1>3. ActionValid(leaf, r) <=> Acceptable(tokens, leaf, r)
  BY DEF ActionValid, Acceptable
<1>. QED
  BY <1>1, <1>2, <1>3 DEF ChainValid, Valid, Links

\* What the loop has established when it has accepted n tokens of c.
Walked(ts, c, n, now) ==
  /\ n \in 1..Len(c)
  /\ Root(ts, c, Trusted, now)
  /\ Links(ts, c, n, now)
  /\ \A i \in 1..n : \A a \in Actions :
       Permits(ts[c[n]].cap, a) => Permits(ts[c[i]].cap, a)

VerifierInv(ts, st, c, n, now, as) ==
  /\ st \in {"links", "admitted"} => Walked(ts, c, n, now)
  /\ st = "admitted" => n = Len(c) /\ \A r \in as : Acceptable(ts, LeafOf(c), r)
  /\ st \in {"idle", "root", "links"} => as = {}
  /\ st = "refused" =>
       /\ Valid(ts, c, Trusted, now) => \A r \in as : ~Acceptable(ts, LeafOf(c), r)
       /\ as = {} => ~Valid(ts, c, Trusted, now)

VerifiersInv ==
  \A v \in Verifiers :
    VerifierInv(tokens, state[v], chain[v], pos[v], at[v], action[v])

LEMMA Elements ==
  ASSUME NEW S, NEW c \in Seq(S), NEW i \in 1..Len(c) PROVE c[i] \in S
OBVIOUS

LEMMA SameTokens ==
  ASSUME NEW ts, NEW us, NEW m \in Nat, \A t \in 1..m : us[t] = ts[t],
         NEW c \in Seq(1..m)
  PROVE  \A i \in 1..Len(c) : c[i] \in 1..m /\ us[c[i]] = ts[c[i]]
<1>. SUFFICES ASSUME NEW i \in 1..Len(c) PROVE c[i] \in 1..m /\ us[c[i]] = ts[c[i]]
  OBVIOUS
<1>1. c[i] \in 1..m
  BY Elements
<1>. QED
  BY <1>1

\* More tokens change nothing about a chain of older ones.
LEMMA ChainStable ==
  ASSUME NEW ts \in Seq(TokenType), NEW us \in Seq(TokenType),
         Len(ts) <= Len(us), \A t \in 1..Len(ts) : us[t] = ts[t],
         NEW c \in Seq(1..Len(ts)), NEW roots, NEW now, NEW n \in 0..Len(c)
  PROVE  /\ Root(us, c, roots, now) <=> Root(ts, c, roots, now)
         /\ Links(us, c, n, now) <=> Links(ts, c, n, now)
         /\ Valid(us, c, roots, now) <=> Valid(ts, c, roots, now)
<1>1. \A i \in 1..Len(c) : c[i] \in 1..Len(ts) /\ us[c[i]] = ts[c[i]]
  <2>1. Len(ts) \in Nat
    OBVIOUS
  <2>. QED
    BY <2>1, SameTokens
<1>2. Root(us, c, roots, now) <=> Root(ts, c, roots, now)
  <2>1. CASE c = <<>>
    BY <2>1 DEF Root
  <2>2. CASE c # <<>>
    <3>1. us[c[1]] = ts[c[1]]
      BY <1>1, <2>2
    <3>. QED
      BY <3>1 DEF Root, Lapsed
  <2>. QED
    BY <2>1, <2>2
<1>3. ASSUME NEW m \in 0..Len(c)
      PROVE  Links(us, c, m, now) <=> Links(ts, c, m, now)
  <2>1. ASSUME NEW i \in 1..(m - 1)
        PROVE  Link(us, c[i], c[i + 1], now) <=> Link(ts, c[i], c[i + 1], now)
    <3>1. i \in 1..Len(c) /\ i + 1 \in 1..Len(c)
      OBVIOUS
    <3>2. us[c[i]] = ts[c[i]] /\ us[c[i + 1]] = ts[c[i + 1]]
      BY <1>1, <3>1
    <3>. QED
      BY <3>2 DEF Link, Lapsed
  <2>. QED
    BY <2>1 DEF Links
<1>4. Len(c) \in 0..Len(c)
  OBVIOUS
<1>. QED
  BY <1>2, <1>3, <1>4 DEF Valid

LEMMA VerifierStable ==
  ASSUME NEW ts \in Seq(TokenType), NEW us \in Seq(TokenType),
         Len(ts) <= Len(us), \A t \in 1..Len(ts) : us[t] = ts[t],
         NEW c \in Seq(1..Len(ts)), NEW n \in 0..Len(c), NEW now, NEW st, NEW as,
         VerifierInv(ts, st, c, n, now, as)
  PROVE  VerifierInv(us, st, c, n, now, as)
<1>1. \A i \in 1..Len(c) : c[i] \in 1..Len(ts) /\ us[c[i]] = ts[c[i]]
  <2>1. Len(ts) \in Nat
    OBVIOUS
  <2>. QED
    BY <2>1, SameTokens
<1>2. /\ Root(us, c, Trusted, now) <=> Root(ts, c, Trusted, now)
      /\ Links(us, c, n, now) <=> Links(ts, c, n, now)
      /\ Valid(us, c, Trusted, now) <=> Valid(ts, c, Trusted, now)
  BY ChainStable
<1>3. Walked(ts, c, n, now) => Walked(us, c, n, now)
  BY <1>1, <1>2, SMTT(30) DEF Walked
<1>4. c # <<>> => \A r : Acceptable(us, LeafOf(c), r) <=> Acceptable(ts, LeafOf(c), r)
  <2>. SUFFICES ASSUME c # <<>>
                PROVE  \A r : Acceptable(us, LeafOf(c), r) <=> Acceptable(ts, LeafOf(c), r)
    OBVIOUS
  <2>1. us[LeafOf(c)] = ts[LeafOf(c)]
    BY <1>1 DEF LeafOf
  <2>. QED
    BY <2>1 DEF Acceptable
<1>5. (Walked(ts, c, n, now) \/ Valid(ts, c, Trusted, now)) => c # <<>>
  BY DEF Walked, Valid, Root
<1>. QED
  BY <1>2, <1>3, <1>4, <1>5 DEF VerifierInv

-----------------------------------------------------------------------------
(* The steps of the loop.                                                  *)

LEMMA StartWalk ==
  ASSUME NEW ts, NEW c \in Seq(Nat), NEW now, Root(ts, c, Trusted, now)
  PROVE  Walked(ts, c, 1, now)
<1>1. 1 \in 1..Len(c)
  BY DEF Root
<1>. QED
  BY <1>1 DEF Walked, Links

LEMMA ExtendWalk ==
  ASSUME NEW ts \in Seq(TokenType), NEW c \in Seq(1..Len(ts)), NEW now,
         NEW n \in Nat, n < Len(c), Walked(ts, c, n, now),
         Link(ts, c[n], c[n + 1], now)
  PROVE  Walked(ts, c, n + 1, now)
<1>1. n \in 1..Len(c) /\ n + 1 \in 1..Len(c)
  BY DEF Walked
<1>2. Links(ts, c, n + 1, now)
  <2>. SUFFICES ASSUME NEW i \in 1..n PROVE Link(ts, c[i], c[i + 1], now)
    BY <1>1 DEF Links
  <2>1. CASE i = n
    BY <2>1
  <2>2. CASE i \in 1..(n - 1)
    BY <2>2 DEF Walked, Links
  <2>. QED
    BY <1>1, <2>1, <2>2
<1>3. ASSUME NEW i \in 1..(n + 1), NEW a \in Actions, Permits(ts[c[n + 1]].cap, a)
      PROVE  Permits(ts[c[i]].cap, a)
  <2>1. CASE i = n + 1
    BY <1>3, <2>1
  <2>2. CASE i \in 1..n
    <3>1. c[n] \in 1..Len(ts) /\ c[n + 1] \in 1..Len(ts)
      BY <1>1, Elements
    <3>2. ts[c[n]] \in TokenType /\ ts[c[n + 1]] \in TokenType
      BY <3>1
    <3>3. ts[c[n]].cap \in SUBSET Grants /\ ts[c[n + 1]].cap \in SUBSET Grants
      BY <3>2 DEF TokenType
    <3>4. IsSubsetOf(ts[c[n + 1]].cap, ts[c[n]].cap)
      BY DEF Link
    <3>5. Permits(ts[c[n]].cap, a)
      BY <1>3, <3>3, <3>4, SubsetPermits
    <3>. QED
      BY <2>2, <3>5 DEF Walked
  <2>. QED
    BY <1>1, <2>1, <2>2
<1>. QED
  BY <1>1, <1>2, <1>3 DEF Walked

LEMMA BrokenLink ==
  ASSUME NEW ts, NEW c, NEW now, NEW n \in Nat \ {0}, Len(c) \in Nat, n < Len(c),
         ~Link(ts, c[n], c[n + 1], now)
  PROVE  ~Valid(ts, c, Trusted, now)
<1>1. n \in 1..(Len(c) - 1)
  OBVIOUS
<1>. QED
  BY <1>1 DEF Valid, Links

LEMMA TokenSteps ==
  ASSUME TypeOK,
         \/ \E k \in Keys : \/ \E authority \in Keys : IssueRoot(authority, k)
                            \/ Delegate(k)
         \/ \E body \in Bodies : Write(body)
  PROVE  tokens' \in Seq(TokenType) /\ Grown /\ UNCHANGED <<clock, checks>>
<1>. SUFFICES \E x \in TokenType : /\ x.parent <= Len(tokens)
                                   /\ tokens' = Append(tokens, x)
                                   /\ UNCHANGED <<clock, checks>>
  BY Signed
<1>1. ASSUME NEW k \in Keys, NEW authority \in Keys, IssueRoot(authority, k)
      PROVE  \E x \in TokenType : /\ x.parent <= Len(tokens)
                                  /\ tokens' = Append(tokens, x)
                                  /\ UNCHANGED <<clock, checks>>
  <2>1. 0 <= Len(tokens)
    BY DEF TypeOK
  <2>. QED
    BY <1>1, <2>1, IssueEffect DEF NoParent
<1>2. ASSUME NEW k \in Keys, NEW c \in Chains, NEW root \in Keys, DelegateBundle(c, root, k)
      PROVE  \E x \in TokenType : /\ x.parent <= Len(tokens)
                                  /\ tokens' = Append(tokens, x)
                                  /\ UNCHANGED <<clock, checks>>
  <2>1. LeafOf(c) \in 1..Len(tokens) /\ Len(tokens) \in Nat
    <3>1. LeafOf(c) \in 1..Len(tokens)
      BY <1>2, DelegateEffect
    <3>. QED
      BY <3>1 DEF TypeOK
  <2>2. LeafOf(c) <= Len(tokens)
    BY <2>1
  <2>3. PICK x \in TokenType : /\ x.parent = LeafOf(c)
                              /\ tokens' = Append(tokens, x)
                              /\ UNCHANGED <<clock, checks>>
    BY <1>2, DelegateEffect
  <2>. QED
    BY <2>2, <2>3
<1>3. ASSUME NEW body \in Bodies, Write(body)
      PROVE  \E x \in TokenType : /\ x.parent <= Len(tokens)
                                  /\ tokens' = Append(tokens, x)
                                  /\ UNCHANGED <<clock, checks>>
  BY <1>3, WriteEffect
<1>. QED
  BY <1>1, <1>2, <1>3 DEF Delegate

\* A verifier's own step keeps what the loop has established.
LEMMA OwnStep ==
  ASSUME TypeOK, NotStarted, VerifiersInv, NEW v \in Verifiers,
         Present(v) \/ CheckRoot(v) \/ CheckLink(v) \/ CheckAction(v)
  PROVE  VerifierInv(tokens, state'[v], chain'[v], pos'[v], at'[v], action'[v])
<1>1. /\ tokens \in Seq(TokenType)
      /\ chain[v] \in Seq(1..Len(tokens)) /\ Len(chain[v]) \in Nat
      /\ pos[v] \in 0..Len(chain[v])
      /\ VerifierInv(tokens, state[v], chain[v], pos[v], at[v], action[v])
  BY DEF TypeOK, VerifiersInv
<1>2. CASE Present(v)
  <2>1. state[v] = "idle" /\ state'[v] = "root" /\ action'[v] = action[v]
    BY <1>2 DEF Present, TypeOK
  <2>. QED
    BY <1>1, <2>1 DEF VerifierInv
<1>3. ASSUME CheckRoot(v) \/ CheckLink(v) \/ CheckAction(v)
      PROVE  chain'[v] = chain[v] /\ at'[v] = at[v]
  BY <1>3 DEF CheckRoot, CheckLink, CheckAction
<1>4. CASE CheckRoot(v)
  <2>1. state[v] = "root" /\ action'[v] = action[v]
        /\ \/ /\ Root(tokens, chain[v], Trusted, at[v])
              /\ state'[v] = "links" /\ pos'[v] = 1
           \/ ~Root(tokens, chain[v], Trusted, at[v]) /\ state'[v] = "refused"
    BY <1>4, Forms DEF CheckRoot, Refuse, TypeOK
  <2>2. action[v] = {}
    BY <1>1, <2>1 DEF VerifierInv
  <2>3. CASE Root(tokens, chain[v], Trusted, at[v]) /\ state'[v] = "links" /\ pos'[v] = 1
    <3>1. chain[v] \in Seq(Nat)
      BY <1>1
    <3>2. Walked(tokens, chain[v], 1, at[v])
      BY <2>3, <3>1, StartWalk
    <3>. QED
      BY <1>3, <1>4, <2>1, <2>2, <2>3, <3>2 DEF VerifierInv
  <2>4. CASE ~Root(tokens, chain[v], Trusted, at[v]) /\ state'[v] = "refused"
    BY <1>3, <1>4, <2>1, <2>2, <2>4 DEF VerifierInv, Valid
  <2>. QED
    BY <2>1, <2>3, <2>4
<1>5. CASE CheckLink(v)
  <2>1. /\ state[v] = "links" /\ action'[v] = action[v] /\ pos[v] < Len(chain[v])
        /\ \/ /\ Link(tokens, chain[v][pos[v]], chain[v][pos[v] + 1], at[v])
              /\ state'[v] = "links" /\ pos'[v] = pos[v] + 1
           \/ /\ ~Link(tokens, chain[v][pos[v]], chain[v][pos[v] + 1], at[v])
              /\ state'[v] = "refused"
    BY <1>5, Forms DEF CheckLink, Refuse, TypeOK
  <2>2. action[v] = {} /\ Walked(tokens, chain[v], pos[v], at[v])
    BY <1>1, <2>1 DEF VerifierInv
  <2>3. CASE /\ Link(tokens, chain[v][pos[v]], chain[v][pos[v] + 1], at[v])
             /\ state'[v] = "links" /\ pos'[v] = pos[v] + 1
    <3>1. pos[v] \in Nat
      BY <1>1
    <3>2. Walked(tokens, chain[v], pos[v] + 1, at[v])
      BY <1>1, <2>1, <2>2, <2>3, <3>1, ExtendWalk
    <3>. QED
      BY <1>3, <1>5, <2>1, <2>2, <2>3, <3>2 DEF VerifierInv
  <2>4. CASE /\ ~Link(tokens, chain[v][pos[v]], chain[v][pos[v] + 1], at[v])
             /\ state'[v] = "refused"
    <3>1. pos[v] \in Nat \ {0}
      BY <1>1, <2>2 DEF Walked
    <3>2. ~Valid(tokens, chain[v], Trusted, at[v])
      BY <1>1, <2>1, <2>4, <3>1, BrokenLink
    <3>. QED
      BY <1>3, <1>5, <2>1, <2>2, <2>4, <3>2 DEF VerifierInv
  <2>. QED
    BY <2>1, <2>3, <2>4
<1>6. CASE CheckAction(v)
  <2>1. PICK r : /\ action' = [action EXCEPT ![v] = {r}]
                 /\ \/ /\ ActionValid(LeafOf(chain[v]), r)
                       /\ state' = [state EXCEPT ![v] = "admitted"]
                       /\ UNCHANGED pos
                    \/ ~ActionValid(LeafOf(chain[v]), r) /\ Refuse(v)
    BY <1>6 DEF CheckAction
  <2>2. /\ state[v] = "links" /\ pos[v] = Len(chain[v]) /\ action'[v] = {r}
        /\ \/ /\ Acceptable(tokens, LeafOf(chain[v]), r)
              /\ state'[v] = "admitted" /\ pos'[v] = pos[v]
           \/ ~Acceptable(tokens, LeafOf(chain[v]), r) /\ state'[v] = "refused"
    BY <1>6, <2>1, Forms DEF CheckAction, Refuse, TypeOK
  <2>3. Walked(tokens, chain[v], pos[v], at[v])
    BY <1>1, <2>2 DEF VerifierInv
  <2>4. CASE /\ Acceptable(tokens, LeafOf(chain[v]), r)
             /\ state'[v] = "admitted" /\ pos'[v] = pos[v]
    BY <1>3, <1>6, <2>2, <2>3, <2>4 DEF VerifierInv
  <2>5. CASE ~Acceptable(tokens, LeafOf(chain[v]), r) /\ state'[v] = "refused"
    BY <1>3, <1>6, <2>2, <2>3, <2>5 DEF VerifierInv
  <2>. QED
    BY <2>2, <2>4, <2>5
<1>. QED
  BY <1>2, <1>4, <1>5, <1>6

LEMMA VerifiersStep ==
  ASSUME TypeOK, NotStarted, VerifiersInv, [Next]_vars
  PROVE  VerifiersInv'
<1>0. /\ tokens \in Seq(TokenType) /\ Len(tokens) \in Nat
      /\ \A w \in Verifiers :
           /\ chain[w] \in Seq(1..Len(tokens)) /\ Len(chain[w]) \in Nat
           /\ pos[w] \in 0..Len(chain[w])
           /\ VerifierInv(tokens, state[w], chain[w], pos[w], at[w], action[w])
  BY DEF TypeOK, VerifiersInv
<1>1. CASE UNCHANGED <<tokens, checks>>
  BY <1>1 DEF VerifiersInv, checks
<1>2. CASE \/ \E k \in Keys : \/ \E authority \in Keys : IssueRoot(authority, k)
                              \/ Delegate(k)
           \/ \E body \in Bodies : Write(body)
  <2>1. tokens' \in Seq(TokenType) /\ Grown /\ UNCHANGED <<clock, checks>>
    BY <1>2, TokenSteps
  <2>2. ASSUME NEW w \in Verifiers
        PROVE  VerifierInv(tokens', state[w], chain[w], pos[w], at[w], action[w])
    BY <1>0, <2>1, VerifierStable DEF Grown
  <2>. QED
    BY <2>1, <2>2 DEF VerifiersInv, checks
<1>3. ASSUME NEW v \in Verifiers,
             Present(v) \/ CheckRoot(v) \/ CheckLink(v) \/ CheckAction(v)
      PROVE  VerifiersInv'
  <2>1. UNCHANGED tokens
    BY <1>3 DEF Present, CheckRoot, CheckLink, CheckAction
  <2>2. ASSUME NEW w \in Verifiers, w # v
        PROVE  /\ state'[w] = state[w] /\ chain'[w] = chain[w] /\ pos'[w] = pos[w]
               /\ at'[w] = at[w] /\ action'[w] = action[w]
    BY <1>3, <2>2 DEF Present, CheckRoot, CheckLink, CheckAction, Refuse, TypeOK
  <2>3. VerifierInv(tokens, state'[v], chain'[v], pos'[v], at'[v], action'[v])
    BY <1>3, OwnStep
  <2>4. ASSUME NEW w \in Verifiers
        PROVE  VerifierInv(tokens, state'[w], chain'[w], pos'[w], at'[w], action'[w])
    BY <1>0, <2>2, <2>3
  <2>. QED
    BY <2>1, <2>4 DEF VerifiersInv
<1>. QED
  BY <1>1, <1>2, <1>3 DEF Next, Tick, vars, checks

-----------------------------------------------------------------------------
(* Credentials.  A credential's chain was valid when it was made, and no   *)
(* token the tools made outlives the one above it: until the leaf lapses,  *)
(* nothing above it does.                                                  *)

Later(ts, t, u) == ts[u].notAfter # 0 /\ (ts[t].notAfter = 0 \/ ts[t].notAfter > ts[u].notAfter)

Sound(ts, c, r) == \E now \in Nat : Valid(ts, c, {r}, now)

BundlesInv ==
  /\ \A b \in bundles : Sound(tokens, b.chain, b.root)
  /\ \A t \in 1..Len(tokens) : t \notin written /\ tokens[t].parent # NoParent =>
       ~Later(tokens, t, tokens[t].parent)

LEMMA SoundStable ==
  ASSUME NEW ts \in Seq(TokenType), NEW us \in Seq(TokenType),
         Len(ts) <= Len(us), \A t \in 1..Len(ts) : us[t] = ts[t],
         NEW c \in Seq(1..Len(ts)), NEW r, Sound(ts, c, r)
  PROVE  Sound(us, c, r)
<1>1. Len(c) \in 0..Len(c) /\ Len(ts) \in Nat
  OBVIOUS
<1>2. \A now \in Nat : Valid(us, c, {r}, now) <=> Valid(ts, c, {r}, now)
  BY <1>1, ChainStable
<1>. QED
  BY <1>2 DEF Sound

LEMMA SoundIssued ==
  ASSUME NEW ts \in Seq(TokenType), NEW m \in 1..Len(ts), NEW r,
         ts[m].parent = NoParent, ts[m].issuer = r, ts[m].signer = r
  PROVE  Sound(ts, <<m>>, r)
<1>1. Len(<<m>>) = 1 /\ <<m>>[1] = m /\ <<m>> # <<>>
  OBVIOUS
<1>2. ~Lapsed(ts, m, 0)
  <2>1. ts[m] \in TokenType
    OBVIOUS
  <2>. QED
    BY <2>1 DEF TokenType, Lapsed
<1>. QED
  BY <1>1, <1>2 DEF Sound, Valid, Root, Links

LEMMA ValidExtended ==
  ASSUME NEW ts \in Seq(TokenType), NEW c \in Seq(1..Len(ts)), NEW r, NEW m \in 1..Len(ts),
         NEW now \in Nat, Valid(ts, c, {r}, now), ~Lapsed(ts, m, now),
         ts[m].parent = LeafOf(c), ts[m].issuer = ts[LeafOf(c)].subject,
         ts[m].signer = ts[m].issuer, IsSubsetOf(ts[m].cap, ts[LeafOf(c)].cap)
  PROVE  Valid(ts, Append(c, m), {r}, now)
<1>. DEFINE e == Append(c, m)
<1>1. /\ c # <<>> /\ Len(c) \in Nat \ {0} /\ Len(e) = Len(c) + 1
      /\ \A i \in 1..Len(c) : e[i] = c[i]
      /\ e[Len(c) + 1] = m
  BY DEF Valid, Root
<1>2. Root(ts, c, {r}, now) /\ Links(ts, c, Len(c), now)
  BY DEF Valid
<1>3. Root(ts, e, {r}, now)
  <2>1. e # <<>> /\ e[1] = c[1]
    BY <1>1
  <2>2. c # <<>> => (Root(ts, c, {r}, now) <=> Root(ts, e, {r}, now))
    <3>. HIDE DEF e
    <3>. QED
      BY <2>1 DEF Root
  <2>. QED
    BY <1>1, <1>2, <2>2
<1>4. ASSUME NEW i \in 1..Len(c)
      PROVE  Link(ts, e[i], e[i + 1], now)
  <2>1. CASE i = Len(c)
    BY <1>1, <2>1 DEF Link, LeafOf
  <2>2. CASE i \in 1..(Len(c) - 1)
    <3>1. e[i] = c[i] /\ e[i + 1] = c[i + 1]
      BY <1>1, <2>2
    <3>. QED
      BY <1>2, <2>2, <3>1 DEF Links
  <2>. QED
    BY <1>1, <2>1, <2>2
<1>5. Links(ts, e, Len(e), now)
  <2>1. Len(e) - 1 = Len(c)
    BY <1>1
  <2>. HIDE DEF e
  <2>. QED
    BY <1>4, <2>1 DEF Links
<1>. QED
  BY <1>3, <1>5 DEF Valid

\* Where no link outlives the one above it, what lapses first is the leaf.
LEMMA LeafLapsesFirst ==
  ASSUME NEW ts \in Seq(TokenType), NEW c \in Seq(1..Len(ts)), c # <<>>, NEW now \in Nat,
         \A i \in 1..(Len(c) - 1) : ~Later(ts, c[i + 1], c[i]),
         ~Lapsed(ts, LeafOf(c), now)
  PROVE  \A i \in 1..Len(c) : ~Lapsed(ts, c[i], now)
<1>. DEFINE T == {d \in Nat : d < Len(c) /\ Lapsed(ts, c[Len(c) - d], now)}
<1>. SUFFICES ASSUME T # {} PROVE FALSE
  <2>1. ASSUME NEW i \in 1..Len(c), Lapsed(ts, c[i], now) PROVE T # {}
    <3>1. Len(c) - i \in Nat /\ Len(c) - i < Len(c) /\ Len(c) - (Len(c) - i) = i
      OBVIOUS
    <3>. QED
      BY <2>1, <3>1
  <2>. QED
    BY <2>1
<1>1. PICK d \in T : \A y \in T : ~(<<y, d>> \in OpToRel(<, Nat))
  <2>1. T \subseteq Nat
    OBVIOUS
  <2>. HIDE DEF T
  <2>. QED
    BY <2>1, NatLessThanWellFounded, WFMin, Zenon
<1>2. d \in Nat /\ d < Len(c) /\ Lapsed(ts, c[Len(c) - d], now) /\ Len(c) \in Nat
  OBVIOUS
<1>3. d # 0
  <2>1. Len(c) - 0 = Len(c)
    BY <1>2
  <2>. QED
    BY <1>2, <2>1 DEF LeafOf
<1>4. /\ d - 1 \in Nat /\ d - 1 < Len(c) /\ d - 1 < d
      /\ Len(c) - (d - 1) = (Len(c) - d) + 1 /\ Len(c) - d \in 1..(Len(c) - 1)
  BY <1>2, <1>3
<1>5. d - 1 \notin T
  <2>1. <<d - 1, d>> \in OpToRel(<, Nat)
    BY <1>2, <1>4 DEF OpToRel
  <2>. HIDE DEF T
  <2>. QED
    BY <1>1, <2>1
<1>6. ~Lapsed(ts, c[(Len(c) - d) + 1], now)
  BY <1>4, <1>5
<1>7. c[Len(c) - d] \in 1..Len(ts) /\ c[(Len(c) - d) + 1] \in 1..Len(ts)
  <2>1. Len(c) - d \in 1..Len(c) /\ (Len(c) - d) + 1 \in 1..Len(c)
    BY <1>2, <1>4
  <2>. HIDE DEF T
  <2>. QED
    BY <2>1, Elements
<1>8. ts[c[Len(c) - d]].notAfter \in Nat /\ ts[c[(Len(c) - d) + 1]].notAfter \in Nat
  <2>1. ts[c[Len(c) - d]] \in TokenType /\ ts[c[(Len(c) - d) + 1]] \in TokenType
    BY <1>7, Elements
  <2>. QED
    BY <2>1 DEF TokenType
<1>9. ~Later(ts, c[(Len(c) - d) + 1], c[Len(c) - d])
  BY <1>4
<1>. HIDE DEF T
<1>. QED
  BY <1>2, <1>6, <1>8, <1>9 DEF Later, Lapsed

\* A chain that was ever valid is valid until its leaf lapses, if no link of it
\* outlives the one above it.
LEMMA ValidLater ==
  ASSUME NEW ts \in Seq(TokenType), NEW c \in Seq(1..Len(ts)), NEW r, NEW now \in Nat,
         Sound(ts, c, r), ~Lapsed(ts, LeafOf(c), now),
         \A i \in 1..(Len(c) - 1) : ~Later(ts, c[i + 1], c[i])
  PROVE  Valid(ts, c, {r}, now)
<1>1. PICK then \in Nat : Valid(ts, c, {r}, then)
  BY DEF Sound
<1>2. c # <<>>
  BY <1>1 DEF Valid, Root
<1>3. \A i \in 1..Len(c) : ~Lapsed(ts, c[i], now)
  BY <1>2, LeafLapsesFirst
<1>4. Root(ts, c, {r}, now)
  <2>1. 1 \in 1..Len(c)
    BY <1>2
  <2>. QED
    BY <1>1, <1>3, <2>1 DEF Valid, Root
<1>5. ASSUME NEW i \in 1..(Len(c) - 1) PROVE Link(ts, c[i], c[i + 1], now)
  <2>1. i + 1 \in 1..Len(c)
    OBVIOUS
  <2>. QED
    BY <1>1, <1>3, <2>1 DEF Valid, Links, Link
<1>. QED
  BY <1>4, <1>5 DEF Valid, Links

\* A step that signs x adds at most a credential that is good, and x outlives
\* nothing unless it was signed by hand.
LEMMA BundlesKept ==
  ASSUME TypeOK, BundlesInv, NEW x \in TokenType, x.parent <= Len(tokens),
         tokens' = Append(tokens, x), written \subseteq written',
         \/ Len(tokens') \in written'
         \/ x.parent = NoParent
         \/ x.parent \in 1..Len(tokens) /\ ~(/\ tokens[x.parent].notAfter # 0
                                            /\ \/ x.notAfter = 0
                                               \/ x.notAfter > tokens[x.parent].notAfter),
         \A b \in bundles' : b \in bundles \/ Sound(tokens', b.chain, b.root)
  PROVE  BundlesInv'
<1>1. /\ tokens \in Seq(TokenType) /\ Len(tokens) \in Nat
      /\ \A t \in 1..Len(tokens) : tokens[t].parent < t
      /\ \A b \in bundles : b.chain \in Seq(1..Len(tokens)) /\ b.root \in Keys
  BY DEF TypeOK
<1>2. /\ tokens' \in Seq(TokenType) /\ Grown
      /\ Len(tokens') = Len(tokens) + 1 /\ tokens'[Len(tokens')] = x
  BY Signed
<1>3. ASSUME NEW b \in bundles PROVE Sound(tokens', b.chain, b.root)
  <2>1. b.chain \in Seq(1..Len(tokens))
    BY <1>1
  <2>2. Sound(tokens, b.chain, b.root)
    BY Zenon DEF BundlesInv
  <2>. QED
    BY <1>1, <1>2, <2>1, <2>2, SoundStable DEF Grown
<1>4. ASSUME NEW t \in 1..Len(tokens'), t \notin written', tokens'[t].parent # NoParent
      PROVE  ~Later(tokens', t, tokens'[t].parent)
  <2>1. CASE t = Len(tokens')
    <3>1. x.parent \in 1..Len(tokens) /\ tokens'[x.parent] = tokens[x.parent]
      BY <1>2, <1>4, <2>1 DEF Grown
    <3>. QED
      BY <1>2, <1>4, <2>1, <3>1 DEF Later
  <2>2. CASE t \in 1..Len(tokens)
    <3>1. tokens'[t] = tokens[t] /\ tokens[t] \in TokenType
      BY <1>1, <1>2, <2>2 DEF Grown
    <3>2. tokens[t].parent \in 1..Len(tokens)
      <4>1. tokens[t].parent \in Nat /\ tokens[t].parent < t
        BY <1>1, <2>2, <3>1 DEF TokenType
      <4>2. tokens[t].parent # 0
        BY <1>4, <3>1 DEF NoParent
      <4>. QED
        BY <1>1, <2>2, <4>1, <4>2
    <3>3. tokens'[tokens[t].parent] = tokens[tokens[t].parent]
      BY <1>2, <3>2 DEF Grown
    <3>4. ~Later(tokens, t, tokens[t].parent)
      BY <1>4, <2>2, <3>1 DEF BundlesInv
    <3>. QED
      BY <3>1, <3>3, <3>4 DEF Later
  <2>. QED
    BY <1>1, <1>2, <2>1, <2>2
<1>. QED
  BY <1>3, <1>4 DEF BundlesInv

LEMMA BundlesStep ==
  ASSUME TypeOK, BundlesInv, [Next]_vars
  PROVE  BundlesInv'
<1>1. tokens \in Seq(TokenType) /\ Len(tokens) \in Nat /\ clock \in Nat
  BY TokenAssumption DEF TypeOK
<1>2. CASE UNCHANGED <<tokens, bundles, written>>
  BY <1>2 DEF BundlesInv, Later
<1>4. ASSUME NEW authority \in Keys, NEW k \in Keys, IssueRoot(authority, k)
      PROVE  BundlesInv'
  <2>1. PICK x \in TokenType :
           /\ x.parent = NoParent /\ x.issuer = authority /\ x.signer = authority
           /\ tokens' = Append(tokens, x)
           /\ bundles' = bundles \cup
                {[chain |-> <<Len(tokens')>>, root |-> authority, seed |-> k]}
           /\ UNCHANGED written
    BY <1>4, IssueEffect
  <2>2. x.parent <= Len(tokens)
    BY <1>1, <2>1 DEF NoParent
  <2>3. /\ tokens' \in Seq(TokenType)
        /\ Len(tokens') = Len(tokens) + 1 /\ tokens'[Len(tokens')] = x
    BY <2>1, <2>2, Signed
  <2>4. Len(tokens') \in 1..Len(tokens')
    BY <1>1, <2>3
  <2>5. Sound(tokens', <<Len(tokens')>>, authority)
    BY <2>1, <2>3, <2>4, SoundIssued
  <2>6. \A b \in bundles' : b \in bundles \/ Sound(tokens', b.chain, b.root)
    BY <2>1, <2>5
  <2>. QED
    BY <2>1, <2>2, <2>6, BundlesKept
<1>5. ASSUME NEW k \in Keys, NEW c \in Chains, NEW root \in Keys, DelegateBundle(c, root, k)
      PROVE  BundlesInv'
  <2>1. /\ c \in Seq(1..Len(tokens)) /\ c # <<>> /\ LeafOf(c) \in 1..Len(tokens)
        /\ Valid(tokens, c, {root}, clock)
    <3>1. /\ c \in Seq(1..Len(tokens)) /\ c # <<>> /\ LeafOf(c) \in 1..Len(tokens)
          /\ ChainValid(c, {root}, clock)
      BY <1>5, DelegateEffect
    <3>. QED
      BY <3>1, Forms
  <2>2. PICK x \in TokenType :
           /\ x.parent = LeafOf(c) /\ x.issuer = tokens[LeafOf(c)].subject
           /\ x.signer = tokens[LeafOf(c)].subject
           /\ IsSubsetOf(x.cap, tokens[LeafOf(c)].cap)
           /\ x.notAfter = Clamped(DefaultExpiry(clock), tokens[LeafOf(c)].notAfter)
           /\ tokens' = Append(tokens, x)
           /\ bundles' = bundles \cup
                {[chain |-> Append(c, Len(tokens')), root |-> root, seed |-> k]}
           /\ UNCHANGED written
    BY <1>5, DelegateEffect
  <2>3. x.parent <= Len(tokens) /\ x.parent \in 1..Len(tokens)
    BY <1>1, <2>1, <2>2
  <2>4. /\ tokens' \in Seq(TokenType) /\ Grown
        /\ Len(tokens') = Len(tokens) + 1 /\ tokens'[Len(tokens')] = x
    BY <2>2, <2>3, Signed
  <2>5. Len(tokens') \in 1..Len(tokens') /\ Len(tokens) <= Len(tokens')
    BY <1>1, <2>4
  <2>6. Valid(tokens', c, {root}, clock)
    <3>1. Len(c) \in 0..Len(c)
      BY <2>1
    <3>. QED
      BY <1>1, <2>1, <2>4, <3>1, ChainStable DEF Grown
  <2>7. c \in Seq(1..Len(tokens'))
    <3>1. 1..Len(tokens) \subseteq 1..Len(tokens')
      BY <1>1, <2>4
    <3>. QED
      BY <2>1, <3>1, SeqGrows
  <2>8. tokens'[LeafOf(c)] = tokens[LeafOf(c)]
    BY <2>1, <2>4 DEF Grown
  <2>9. DefaultExpiry(clock) \in Nat /\ DefaultExpiry(clock) > clock
    BY <1>1, TokenAssumption DEF DefaultExpiry
  <2>10. tokens[LeafOf(c)].notAfter \in Nat
    <3>1. tokens[LeafOf(c)] \in TokenType
      BY <1>1, <2>1
    <3>. QED
      BY <3>1 DEF TokenType
  <2>11. ~Lapsed(tokens, LeafOf(c), clock)
    <3>1. CASE Len(c) = 1
      BY <2>1, <3>1 DEF Valid, Root, LeafOf
    <3>2. CASE Len(c) # 1
      <4>0. Len(c) \in Nat /\ Len(c) # 0
        BY <2>1
      <4>1. Len(c) - 1 \in 1..(Len(c) - 1) /\ (Len(c) - 1) + 1 = Len(c)
        <5>1. ASSUME NEW n \in Nat, n # 0, n # 1
              PROVE  n - 1 \in 1..(n - 1) /\ (n - 1) + 1 = n
          BY <5>1
        <5>. QED
          BY <3>2, <4>0, <5>1
      <4>2. Link(tokens, c[Len(c) - 1], c[Len(c)], clock)
        BY <2>1, <4>1 DEF Valid, Links
      <4>. QED
        BY <4>2 DEF Link, LeafOf
    <3>. QED
      BY <3>1, <3>2
  <2>12. ~Lapsed(tokens', Len(tokens'), clock)
    BY <1>1, <2>2, <2>4, <2>9, <2>10, <2>11 DEF Lapsed, Clamped
  <2>13. Valid(tokens', Append(c, Len(tokens')), {root}, clock)
    BY <1>1, <2>2, <2>4, <2>5, <2>6, <2>7, <2>8, <2>12, ValidExtended
  <2>14. \A b \in bundles' : b \in bundles \/ Sound(tokens', b.chain, b.root)
    <3>1. Sound(tokens', Append(c, Len(tokens')), root)
      BY <1>1, <2>13 DEF Sound
    <3>. SUFFICES ASSUME NEW b \in bundles', b \notin bundles
                  PROVE  Sound(tokens', b.chain, b.root)
      OBVIOUS
    <3>2. b = [chain |-> Append(c, Len(tokens')), root |-> root, seed |-> k]
      BY <2>2
    <3>. QED
      BY <3>1, <3>2
  <2>15. ~(/\ tokens[x.parent].notAfter # 0
           /\ x.notAfter = 0 \/ x.notAfter > tokens[x.parent].notAfter)
    BY <1>1, <2>2, <2>9, <2>10 DEF Clamped
  <2>. QED
    BY <2>2, <2>3, <2>14, <2>15, BundlesKept
<1>6. ASSUME NEW body \in Bodies, Write(body)
      PROVE  BundlesInv'
  <2>1. PICK x \in TokenType : x.parent <= Len(tokens) /\ tokens' = Append(tokens, x)
    BY <1>6, WriteEffect
  <2>2. UNCHANGED bundles /\ written' = written \cup {Len(tokens')}
    BY <1>6, WriteEffect
  <2>. QED
    BY <2>1, <2>2, BundlesKept
<1>7. ASSUME Tick \/ (\E v \in Verifiers : Present(v) \/ CheckRoot(v) \/ CheckLink(v) \/ CheckAction(v))
             \/ UNCHANGED vars
      PROVE  UNCHANGED <<tokens, bundles, written>>
  BY <1>7 DEF Tick, Present, CheckRoot, CheckLink, CheckAction, vars
<1>. QED
  BY <1>2, <1>4, <1>5, <1>6, <1>7 DEF Next, Delegate

-----------------------------------------------------------------------------
(* The theorems.                                                           *)

ChainInv == TypeOK /\ NotStarted /\ VerifiersInv /\ BundlesInv

LEMMA InitInv == Init => ChainInv
<1>. SUFFICES ASSUME Init PROVE ChainInv
  OBVIOUS
<1>1. TypeOK /\ NotStarted
  BY TokenAssumption DEF Init, TypeOK, NotStarted
<1>2. VerifiersInv /\ BundlesInv
  BY DEF Init, VerifiersInv, VerifierInv, BundlesInv
<1>. QED
  BY <1>1, <1>2 DEF ChainInv

LEMMA InvStep == ChainInv /\ [Next]_vars => ChainInv'
BY TypeStep, VerifiersStep, BundlesStep DEF ChainInv

LEMMA Inductive == Spec => []ChainInv
BY InitInv, InvStep, PTL DEF Spec

\* The variables keep their types, and chains and parents name tokens that
\* exist, for any keys, grants and bounds.
THEOREM TokenTypes == Spec => []TypeOK
<1>1. ChainInv => TypeOK
  BY DEF ChainInv
<1>. QED
  BY <1>1, Inductive, PTL

\* An admitted action was delegated link by link from a trusted root, and every
\* link permits it: verify_chain and verify_action together.
THEOREM Delegated == Spec => []AdmittedIsDelegated
<1>1. ChainInv => AdmittedIsDelegated
  <2>. SUFFICES ASSUME ChainInv, NEW v \in Verifiers, state[v] = "admitted"
                PROVE  LET c == chain[v] IN
                  /\ c # <<>>
                  /\ tokens[c[1]].signer \in Trusted
                  /\ \A i \in 1..Len(c) : ~Expired(c[i], at[v])
                  /\ \A i \in 2..Len(c) : tokens[c[i]].signer = tokens[c[i - 1]].subject
                  /\ \A r \in action[v] :
                       /\ \A i \in 1..Len(c) : Permits(tokens[c[i]].cap, r.act)
                       /\ r.signer = tokens[LeafOf(c)].subject /\ r.bound = LeafOf(c)
    BY DEF AdmittedIsDelegated
  <2>. DEFINE c == chain[v]
  <2>1. /\ Walked(tokens, c, Len(c), at[v])
        /\ \A r \in action[v] : Acceptable(tokens, LeafOf(c), r)
    BY DEF ChainInv, VerifiersInv, VerifierInv
  <2>2. Len(c) \in Nat /\ \A r \in action[v] : r.act \in Actions
    BY DEF ChainInv, TypeOK, ActionType
  <2>3. Root(tokens, c, Trusted, at[v])
    BY <2>1 DEF Walked
  <2>4. ASSUME NEW i \in 2..Len(c)
        PROVE  /\ ~Lapsed(tokens, c[i], at[v])
               /\ tokens[c[i]].signer = tokens[c[i - 1]].subject
    <3>1. i - 1 \in 1..(Len(c) - 1) /\ (i - 1) + 1 = i
      BY <2>2
    <3>2. Link(tokens, c[i - 1], c[i], at[v])
      BY <2>1, <3>1 DEF Walked, Links
    <3>. QED
      BY <3>2 DEF Link
  <2>5. ASSUME NEW i \in 1..Len(c) PROVE ~Expired(c[i], at[v])
    <3>1. CASE i = 1
      BY <2>3, <3>1 DEF Root, Lapsed, Expired
    <3>2. CASE i \in 2..Len(c)
      BY <2>4, <3>2 DEF Lapsed, Expired
    <3>. QED
      BY <2>2, <3>1, <3>2
  <2>6. ASSUME NEW r \in action[v]
        PROVE  /\ \A i \in 1..Len(c) : Permits(tokens[c[i]].cap, r.act)
               /\ r.signer = tokens[LeafOf(c)].subject /\ r.bound = LeafOf(c)
    BY <2>1, <2>2 DEF Acceptable, Walked, LeafOf
  <2>. QED
    BY <2>3, <2>4, <2>5, <2>6 DEF Root
<1>. QED
  BY <1>1, Inductive, PTL

\* The loop's verdict is the one the whole chain deserves.
THEOREM LoopIsExact == Spec => []LoopDecides
<1>1. ChainInv => LoopDecides
  <2>. SUFFICES ASSUME ChainInv, NEW v \in Verifiers
                PROVE  LET good == ChainValid(chain[v], Trusted, at[v]) IN
                  /\ state[v] = "admitted" => good
                  /\ state[v] = "refused" =>
                       ~(good /\ \E r \in action[v] : ActionValid(LeafOf(chain[v]), r))
                  /\ state[v] = "refused" /\ action[v] = {} => ~good
    BY DEF LoopDecides
  <2>1. VerifierInv(tokens, state[v], chain[v], pos[v], at[v], action[v])
    BY DEF ChainInv, VerifiersInv
  <2>2. state[v] = "admitted" => Valid(tokens, chain[v], Trusted, at[v])
    BY <2>1 DEF VerifierInv, Walked, Valid
  <2>. QED
    BY <2>1, <2>2, Forms DEF VerifierInv
<1>. QED
  BY <1>1, Inductive, PTL

\* A verifier admits exactly what every link of any chain delegates (token.rs:125-183).
THEOREM ChainIsExact == Spec => []ChainDecides
BY Delegated, LoopIsExact, PTL DEF ChainDecides

\* What the tools hand out is accepted until it expires, unless a hand-signed link
\* of its chain outlives the one above it (token_delegate.rs, delegate_bundle).
THEOREM CredentialsHold == Spec => []BundleUsable
<1>1. ChainInv => BundleUsable
  <2>. SUFFICES ASSUME ChainInv, NEW b \in bundles,
                       \A i \in 1..(Len(b.chain) - 1) :
                         ~(b.chain[i + 1] \in written /\ Outlives(b.chain[i + 1], b.chain[i])),
                       NEW now \in clock..MaxTime, ~Expired(LeafOf(b.chain), now)
                PROVE  ChainValid(b.chain, {b.root}, now)
    BY DEF BundleUsable
  <2>. DEFINE c == b.chain
  <2>1. now \in Nat /\ tokens \in Seq(TokenType) /\ c \in Seq(1..Len(tokens))
    BY TokenAssumption DEF ChainInv, TypeOK
  <2>2. Sound(tokens, c, b.root)
    BY DEF ChainInv, BundlesInv
  <2>3. ASSUME NEW i \in 1..(Len(c) - 1) PROVE ~Later(tokens, c[i + 1], c[i])
    <3>1. i + 1 \in 1..Len(c)
      BY <2>1
    <3>2. c[i] \in 1..Len(tokens) /\ c[i + 1] \in 1..Len(tokens)
      BY <2>1, <3>1, Elements
    <3>3. tokens[c[i + 1]].parent = c[i]
      BY <2>2 DEF Sound, Valid, Links, Link
    <3>4. c[i + 1] \notin written => ~Later(tokens, c[i + 1], c[i])
      BY <3>2, <3>3 DEF ChainInv, BundlesInv, NoParent
    <3>. QED
      BY <3>4 DEF Later, Outlives
  <2>4. Valid(tokens, c, {b.root}, now)
    BY <2>1, <2>2, <2>3, ValidLater DEF Expired, Lapsed
  <2>. QED
    BY <2>4, Forms
<1>. QED
  BY <1>1, Inductive, PTL

=============================================================================
