----------------------------- MODULE TokenChain -----------------------------
(***************************************************************************)
(* Delegation tokens: who may issue them, how a holder hands down less    *)
(* than it has, and how an enforcement point verifies a chain of them and *)
(* the action it authorizes (ql-token, token.rs and capability.rs;        *)
(* ql-cli, token_delegate.rs).                                             *)
(*                                                                         *)
(* A token is known by its place in the sequence `tokens`, which stands   *)
(* for its hash: bodies are distinct and hashes do not collide.  A key    *)
(* signs any body it likes (Write), so a holder may bypass the library;   *)
(* a signature is valid when the signer is the issuer the body names.     *)
(* Paths are sequences of names; a `/**` grant is `deep`.                 *)
(***************************************************************************)
EXTENDS Integers, Sequences, FiniteSets

CONSTANTS
  Keys,       \* the identities, each a key pair
  Trusted,    \* the trusted roots of the enforcement points
  Verifiers,  \* the threads that verify presented requests
  Grants,     \* the grants capabilities are made of
  Caps,       \* the capabilities that authorities and holders ask for
  Actions,    \* the actions agents attempt
  Bodies,     \* what a key may sign by hand: all of a body but its parent
  Nobody,     \* the signer of an action whose signature does not verify
  TTL,        \* the default lifetime
  MaxTime,    \* bound on the clock
  MaxTokens,  \* bound on the tokens in existence
  MaxChain    \* bound on the length of a presented chain

Axes == {"read", "write", "net", "exec"}

ASSUME TokenAssumption ==
  /\ Trusted \subseteq Keys /\ Nobody \notin Keys
  /\ \A g \in Grants : /\ g.axis \in Axes /\ g.path \in Seq(STRING) /\ g.deep \in BOOLEAN
                       /\ g.deep => g.axis \in {"read", "write"}
  /\ \A a \in Actions : a.axis \in Axes /\ a.path \in Seq(STRING)
  /\ Caps \subseteq SUBSET Grants
  /\ Bodies \subseteq [issuer : Keys, subject : Keys, cap : SUBSET Grants,
                       notAfter : Nat, signer : Keys]
  /\ TTL \in Nat \ {0} /\ MaxTime \in Nat /\ MaxTokens \in Nat /\ MaxChain \in Nat

VARIABLES
  clock,    \* the wall clock
  tokens,   \* every token signed so far
  bundles,  \* the credentials handed out: a chain and the key that may use it
  written,  \* history: the tokens that were signed by hand
  state,    \* where each verifier is
  chain,    \* the chain each verifier was presented with
  action,   \* the signed action it was presented with, once looked at
  at,       \* the clock value each verifier captured
  pos       \* how many links of the chain each verifier has accepted

checks == <<state, chain, action, at, pos>>
vars == <<clock, tokens, bundles, written, checks>>

-----------------------------------------------------------------------------
(* Capabilities.                                                           *)

Prefix(s, t) == Len(s) <= Len(t) /\ \A i \in 1..Len(s) : s[i] = t[i]

\* path_within_one(): equal, or below a `/**` grant.
PathWithin(path, deep, g) ==
  \/ path = g.path /\ deep = g.deep
  \/ g.deep /\ Prefix(g.path, path)

Within(g, h) == g.axis = h.axis /\ PathWithin(g.path, g.deep, h)

\* is_subset_of(): every grant is covered by one on the same axis.
IsSubsetOf(cap, parent) == \A g \in cap : \E h \in parent : Within(g, h)

\* permits(): a read is also permitted where writing is.
Permits(cap, a) ==
  \E g \in cap :
    /\ g.axis = a.axis \/ (a.axis = "read" /\ g.axis = "write")
    /\ PathWithin(a.path, FALSE, g)

-----------------------------------------------------------------------------
(* Tokens and chains.                                                      *)

NoParent == 0

Token(issuer, subject, cap, parent, notAfter, signer) ==
  [issuer |-> issuer, subject |-> subject, cap |-> cap, parent |-> parent,
   notAfter |-> notAfter, signer |-> signer]

Expired(t, now) == tokens[t].notAfter # 0 /\ now > tokens[t].notAfter

SignatureValid(t) == tokens[t].signer = tokens[t].issuer

DefaultExpiry(now) == now + TTL

\* verify_chain(), what it asks of the first token.
RootAccepted(c, roots, now) ==
  /\ c # <<>>
  /\ tokens[c[1]].parent = NoParent
  /\ tokens[c[1]].issuer \in roots
  /\ SignatureValid(c[1])
  /\ ~Expired(c[1], now)

\* Mutant: a link's capability is taken on trust.
LinkValidAnyCap(prev, cur, now) ==
  /\ tokens[cur].issuer = tokens[prev].subject
  /\ tokens[cur].parent = prev
  /\ SignatureValid(cur)
  /\ ~Expired(cur, now)

\* verify_chain(), what it asks of each following token.
LinkValid(prev, cur, now) ==
  /\ tokens[cur].issuer = tokens[prev].subject
  /\ tokens[cur].parent = prev
  /\ IsSubsetOf(tokens[cur].cap, tokens[prev].cap)
  /\ SignatureValid(cur)
  /\ ~Expired(cur, now)

\* verify_chain() as a whole.
ChainValid(c, roots, now) ==
  /\ RootAccepted(c, roots, now)
  /\ \A i \in 1..(Len(c) - 1) : LinkValid(c[i], c[i + 1], now)

LeafOf(c) == c[Len(c)]

-----------------------------------------------------------------------------
Chains == UNION {[1..n -> 1..Len(tokens)] : n \in 0..MaxChain}

Init ==
  /\ clock = 0
  /\ tokens = <<>>
  /\ bundles = {}
  /\ written = {}
  /\ state = [v \in Verifiers |-> "idle"]
  /\ chain = [v \in Verifiers |-> <<>>]
  /\ action = [v \in Verifiers |-> {}]
  /\ at = [v \in Verifiers |-> 0]
  /\ pos = [v \in Verifiers |-> 0]

Tick ==
  /\ clock < MaxTime
  /\ clock' = clock + 1
  /\ UNCHANGED <<tokens, bundles, written, checks>>

Sign(token) ==
  /\ Len(tokens) < MaxTokens
  /\ \A t \in DOMAIN tokens : tokens[t] # token
  /\ tokens' = Append(tokens, token)

\* A key with no token of its own yet: Identity::generate.
Fresh(k) == k \notin Trusted /\ \A t \in DOMAIN tokens : tokens[t].subject # k

\* issue_root(): an authority grants a capability, with or without an expiry,
\* and hands the token to a fresh subject.
IssueRoot(authority, k) ==
  /\ Fresh(k)
  /\ \E cap \in Caps, notAfter \in {0, DefaultExpiry(clock)} :
       Sign(Token(authority, k, cap, NoParent, notAfter, authority))
  /\ bundles' = bundles \cup
       {[chain |-> <<Len(tokens')>>, root |-> authority, seed |-> k]}
  /\ UNCHANGED <<clock, written, checks>>

\* Narrowing::apply(): what the parent holds of what is asked for.
Narrowed(cap, only) == cap \cap only

\* Mutant: the child gets the default lifetime, whatever its parent has left.
ClampedNot(notAfter, parent) == notAfter

Clamped(notAfter, parent) == IF notAfter < parent THEN notAfter ELSE parent

\* The leaf's capability narrowed and its expiry clamped, signed by the leaf's key.
Child(c, k, only) ==
  LET leaf == tokens[LeafOf(c)] IN
    Token(leaf.subject, k, Narrowed(leaf.cap, only), LeafOf(c),
          Clamped(DefaultExpiry(clock), leaf.notAfter), leaf.subject)

\* delegate_bundle(): the chain is verified under the root that is named with it, and
\* extended by a token signed with the leaf's key.
DelegateBundle(c, root, k) ==
  /\ ChainValid(c, {root}, clock)
  /\ Len(c) < MaxChain
  /\ \E only \in Caps :
       /\ IsSubsetOf(Narrowed(tokens[LeafOf(c)].cap, only), tokens[LeafOf(c)].cap)
       /\ Sign(Child(c, k, only))
  /\ bundles' = bundles \cup
       {[chain |-> Append(c, Len(tokens')), root |-> root, seed |-> k]}
  /\ UNCHANGED <<clock, written, checks>>

\* `ql token delegate --from`: a credential is read from a file, whoever made it, and
\* delegated to a fresh key.
Delegate(k) ==
  /\ Fresh(k)
  /\ Len(tokens) < MaxTokens
  /\ \E c \in Chains, root \in Keys : DelegateBundle(c, root, k)

\* A body signed by hand, naming any token as its parent.
Write(body) ==
  /\ \E parent \in 0..Len(tokens) :
       Sign(Token(body.issuer, body.subject, body.cap, parent, body.notAfter, body.signer))
  /\ written' = written \cup {Len(tokens')}
  /\ UNCHANGED <<clock, bundles, checks>>

\* A request arrives: any chain.  Its action is chosen when it is looked at,
\* which nothing before depends on.
Present(v) ==
  /\ state[v] = "idle"
  /\ \E presented \in Chains : chain' = [chain EXCEPT ![v] = presented]
  /\ at' = [at EXCEPT ![v] = clock]
  /\ state' = [state EXCEPT ![v] = "root"]
  /\ UNCHANGED <<clock, tokens, bundles, written, action, pos>>

Refuse(v) == state' = [state EXCEPT ![v] = "refused"] /\ UNCHANGED pos

CheckRoot(v) ==
  /\ state[v] = "root"
  /\ \/ /\ RootAccepted(chain[v], Trusted, at[v])
        /\ state' = [state EXCEPT ![v] = "links"]
        /\ pos' = [pos EXCEPT ![v] = 1]
     \/ ~RootAccepted(chain[v], Trusted, at[v]) /\ Refuse(v)
  /\ UNCHANGED <<clock, tokens, bundles, written, chain, action, at>>

\* One turn of the loop over chain.windows(2).
CheckLink(v) ==
  /\ state[v] = "links"
  /\ pos[v] < Len(chain[v])
  /\ \/ /\ LinkValid(chain[v][pos[v]], chain[v][pos[v] + 1], at[v])
        /\ pos' = [pos EXCEPT ![v] = @ + 1]
        /\ UNCHANGED state
     \/ ~LinkValid(chain[v][pos[v]], chain[v][pos[v] + 1], at[v]) /\ Refuse(v)
  /\ UNCHANGED <<clock, tokens, bundles, written, chain, action, at>>

\* verify_action().
ActionValid(leaf, r) ==
  /\ r.signer = tokens[leaf].subject
  /\ r.bound = leaf
  /\ Permits(tokens[leaf].cap, r.act)

CheckAction(v) ==
  /\ state[v] = "links"
  /\ pos[v] = Len(chain[v])
  /\ \E r \in [act : Actions, signer : Keys \cup {Nobody}, bound : 1..Len(tokens)] :
       /\ action' = [action EXCEPT ![v] = {r}]
       /\ \/ /\ ActionValid(LeafOf(chain[v]), r)
             /\ state' = [state EXCEPT ![v] = "admitted"]
             /\ UNCHANGED pos
          \/ ~ActionValid(LeafOf(chain[v]), r) /\ Refuse(v)
  /\ UNCHANGED <<clock, tokens, bundles, written, chain, at>>

Next ==
  \/ Tick
  \/ \E k \in Keys : \/ \E authority \in Keys : IssueRoot(authority, k)
                     \/ Delegate(k)
  \/ \E body \in Bodies : Write(body)
  \/ \E v \in Verifiers : Present(v) \/ CheckRoot(v) \/ CheckLink(v) \/ CheckAction(v)

Spec == Init /\ [][Next]_vars
-----------------------------------------------------------------------------
(* Properties.                                                             *)

TokenType ==
  [issuer : Keys, subject : Keys, cap : SUBSET Grants, parent : Nat,
   notAfter : Nat, signer : Keys]

ActionType == [act : Actions, signer : Keys \cup {Nobody}, bound : Nat]

\* The variables hold what the code's types and guards allow; chains and parents
\* name tokens that exist.
TypeOK ==
  /\ clock \in 0..MaxTime
  /\ tokens \in Seq(TokenType)
  /\ \A t \in DOMAIN tokens : tokens[t].parent < t
  /\ bundles \subseteq [chain : Seq(DOMAIN tokens), root : Keys, seed : Keys]
  /\ written \subseteq DOMAIN tokens
  /\ state \in [Verifiers -> {"idle", "root", "links", "admitted", "refused"}]
  /\ chain \in [Verifiers -> Seq(DOMAIN tokens)]
  /\ action \in [Verifiers -> SUBSET ActionType]
  /\ at \in [Verifiers -> 0..MaxTime]
  /\ pos \in [Verifiers -> Nat] /\ \A v \in Verifiers : pos[v] <= Len(chain[v])

\* Whatever chain is presented, an action is admitted only if every token of the
\* chain permits it, the first was signed by a trusted root, each later one by
\* the subject of the one before it, none had expired when the request was read,
\* and the action was signed by the last one's subject, for that token
\* (token.rs:130, "each step only narrows authority").
AdmittedIsDelegated ==
  \A v \in Verifiers : state[v] = "admitted" =>
    LET c == chain[v] IN
      /\ c # <<>>
      /\ tokens[c[1]].signer \in Trusted
      /\ \A i \in 1..Len(c) : ~Expired(c[i], at[v])
      /\ \A i \in 2..Len(c) : tokens[c[i]].signer = tokens[c[i - 1]].subject
      /\ \A r \in action[v] :
           /\ \A i \in 1..Len(c) : Permits(tokens[c[i]].cap, r.act)
           /\ r.signer = tokens[LeafOf(c)].subject /\ r.bound = LeafOf(c)

\* Token t is good after token u has lapsed; no expiry is the latest of all.
Outlives(t, u) ==
  /\ tokens[u].notAfter # 0
  /\ tokens[t].notAfter = 0 \/ tokens[t].notAfter > tokens[u].notAfter

\* A credential the tools hand out is accepted, by whoever trusts its root, until
\* its own expiry: no ancestor lapses before it and no link broadens, unless the
\* chain it was delegated from holds a hand-signed token that outlives the one
\* above it (token_delegate.rs:148, "A child must not outlive its parent").
BundleUsable ==
  \A b \in bundles :
    LET c == b.chain
        late(i) == c[i + 1] \in written /\ Outlives(c[i + 1], c[i]) IN
    \/ \E i \in 1..(Len(c) - 1) : late(i)
    \/ \A now \in clock..MaxTime :
         ~Expired(LeafOf(c), now) => ChainValid(c, {b.root}, now)

\* The link-by-link loop reaches the verdict that the chain as a whole deserves:
\* it stops at no good chain and lets no bad one through (token.rs:133).
LoopDecides ==
  \A v \in Verifiers :
    LET good == ChainValid(chain[v], Trusted, at[v]) IN
      /\ state[v] = "admitted" => good
      /\ state[v] = "refused" =>
           ~(good /\ \E r \in action[v] : ActionValid(LeafOf(chain[v]), r))
      /\ state[v] = "refused" /\ action[v] = {} => ~good

\* A verifier admits what every link delegates, and nothing else is refused.
ChainDecides == AdmittedIsDelegated /\ LoopDecides
=============================================================================
