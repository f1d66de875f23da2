---------------------------- MODULE BrokerEgress ----------------------------
(***************************************************************************)
(* The egress broker: one thread per client connection, each driving one  *)
(* CONNECT request through authorization, name resolution, the            *)
(* resolved-address policy, reporting and the upstream connection         *)
(* (ql-broker, proxy.rs and policy.rs).  The threads share the anti-replay *)
(* store of nonce.rs, behind its mutex, and the wall clock.               *)
(*                                                                         *)
(* A thread reads the clock once (proxy.rs:119) and carries that value    *)
(* into the token check and into the store, so two threads can enter the  *)
(* store with clock values that are out of order.                         *)
(***************************************************************************)
EXTENDS Integers, Sequences, FiniteSets

CONSTANTS
  Conns,         \* client connections; each has its own broker thread
  Hosts,         \* host names, and the domains that policies name
  Subdomain,     \* pairs <<h, d>>: h is a proper dot-boundary subdomain of d
  Addresses,     \* resolved addresses
  Blocked,       \* the addresses is_blocked_ip rejects
  Answers,       \* the address lists a resolver may return
  AllowDomains,  \* the profile's network.allow_domains
  Canaries,      \* the registered canary destinations
  DefaultDeny,   \* network.default_deny
  BlockPrivate,  \* network.block_private_ranges
  TokenGated,    \* whether trusted roots are configured
  Leaves,        \* leaf tokens, by hash
  Trusted,       \* the leaves whose chain verifies up to a trusted root
  Grants,        \* Grants[l]: the net_domains the leaf grants
  NotAfter,      \* NotAfter[l]: expiry of the leaf, 0 for none
  ChainNotAfter, \* ChainNotAfter[l]: earliest expiry on the chain of l
  Nonces,        \* nonces an agent may sign
  Requests,      \* the requests clients may send
  MaxTime        \* bound on the clock

Forms == {"connect", "malformed", "other", "gone"}
Auths == {"none", "malformed", "forged", "signed"}

\* One request: its shape, its CONNECT host, and the authorization header with
\* the leaf token, nonce and domain that the signed action commits to.  "gone"
\* is a client that hung up, or stayed silent past the read timeout.
RequestType ==
  [form : Forms, host : Hosts, auth : Auths,
   leaf : Leaves, nonce : Nonces, domain : Hosts]

ASSUME PolicyAssumption ==
  /\ AllowDomains \subseteq Hosts /\ Canaries \subseteq Hosts
  /\ Subdomain \subseteq Hosts \X Hosts
  /\ Blocked \subseteq Addresses /\ Answers \subseteq Seq(Addresses)
  /\ DefaultDeny \in BOOLEAN /\ BlockPrivate \in BOOLEAN /\ TokenGated \in BOOLEAN

ASSUME TokenAssumption ==
  /\ Trusted \subseteq Leaves
  /\ Grants \in [Leaves -> SUBSET Hosts]
  /\ NotAfter \in [Leaves -> Nat] /\ ChainNotAfter \in [Leaves -> Nat]
  /\ \A l \in Leaves : NotAfter[l] # 0 => ChainNotAfter[l] \in 1..NotAfter[l]
  /\ Nonces \subseteq Nat
  /\ Requests \subseteq RequestType
  /\ MaxTime \in Nat

VARIABLES
  clock,      \* the wall clock
  pc,         \* where each connection's thread is
  req,        \* the request each client sends
  at,         \* the clock value each thread captured
  decision,   \* the decision each thread has reached so far
  reply,      \* the HTTP status each thread answers with, 0 for none
  ips,        \* the resolver's answer
  peer,       \* the upstream address a thread connected to, if any
  highWater,  \* the anti-replay store: highest nonce admitted for each leaf
  admitted,   \* history: connections the anti-replay gate admitted
  audited,    \* audited[c]: the audit events recorded on behalf of c
  observed    \* observed[c]: the decisions the hook saw for c

store == <<highWater, admitted>>
reports == <<audited, observed>>
vars == <<clock, pc, req, at, decision, reply, ips, peer, store, reports>>

Steps == {"idle", "authorize", "nonce", "resolve", "evaluate", "audit",
          "hook", "connect", "tunnel", "closed"}

DenyReasons ==
  {"canary", "missing token", "malformed token", "host not granted",
   "invalid token", "replayed token", "not in allow-list", "unresolved",
   "private address"}

\* Mutant: the first nonce of a leaf is compared with 0.
UntrackedAsZero == 0

Untracked == -1        \* the store has no entry for the leaf

-----------------------------------------------------------------------------
(* The policy, as the code's predicates state it.                          *)

HostMatches(h, d) == h = d \/ <<h, d>> \in Subdomain

HostAllowed(h) == DefaultDeny => \E d \in AllowDomains : HostMatches(h, d)

IsCanary(h) == \E d \in Canaries : HostMatches(h, d)

Expired(notAfter, t) == notAfter # 0 /\ t > notAfter

\* authorize(): the chain verifies at time t, and the action is signed by the
\* leaf's subject and within the leaf's capability.
Authorized(r, t) ==
  /\ r.auth = "signed"
  /\ r.leaf \in Trusted
  /\ ~Expired(ChainNotAfter[r.leaf], t)
  /\ r.domain \in Grants[r.leaf]

\* Why the token gate refuses r before it consults the store, or "none".
TokenDenial(r, t) ==
  IF r.auth = "none" THEN "missing token"
  ELSE IF r.auth = "malformed" THEN "malformed token"
  ELSE IF ~Authorized(r, t) THEN "invalid token"
  ELSE IF ~HostMatches(r.host, r.domain) THEN "host not granted"
  ELSE "none"

\* Mutant: refuses only when every resolved address is blocked.
EvaluateAnyPublic(h, answer) ==
  IF ~HostAllowed(h) THEN "not in allow-list"
  ELSE IF BlockPrivate /\ answer = <<>> THEN "unresolved"
  ELSE IF BlockPrivate /\ \A i \in DOMAIN answer : answer[i] \in Blocked
       THEN "private address"
  ELSE "allow"

\* evaluate(): the allow-list, then every resolved address.
Evaluate(h, answer) ==
  IF ~HostAllowed(h) THEN "not in allow-list"
  ELSE IF BlockPrivate /\ answer = <<>> THEN "unresolved"
  ELSE IF BlockPrivate /\ \E i \in DOMAIN answer : answer[i] \in Blocked
       THEN "private address"
  ELSE "allow"

-----------------------------------------------------------------------------
(* One broker thread.                                                      *)

Goto(c, step) == pc' = [pc EXCEPT ![c] = step]

\* On to the next check, undecided.
Proceed(c, step) == Goto(c, step) /\ UNCHANGED <<decision, reply>>

\* A final denial, answered with status code once it has been reported.
Refuse(c, why, code) ==
  /\ decision' = [decision EXCEPT ![c] = why]
  /\ reply' = [reply EXCEPT ![c] = code]
  /\ Goto(c, "audit")

Init ==
  /\ clock = 0
  /\ pc = [c \in Conns |-> "idle"]
  /\ req \in [Conns -> Requests]
  /\ at = [c \in Conns |-> 0]
  /\ decision = [c \in Conns |-> "none"]
  /\ reply = [c \in Conns |-> 0]
  /\ ips = [c \in Conns |-> <<>>]
  /\ peer = [c \in Conns |-> {}]
  /\ highWater = [l \in Leaves |-> Untracked]
  /\ admitted = {}
  /\ audited = [c \in Conns |-> <<>>]
  /\ observed = [c \in Conns |-> <<>>]

\* The wall clock advances between any two steps.
Tick ==
  /\ clock < MaxTime
  /\ clock' = clock + 1
  /\ UNCHANGED <<pc, req, at, decision, reply, ips, peer, store, reports>>

\* The connection is accepted and its head read; anything but a well-formed
\* CONNECT is answered, or dropped, without a decision.
ReadOther(c) ==
  /\ pc[c] = "idle"
  /\ req[c].form # "connect"
  /\ reply' = [reply EXCEPT ![c] = IF req[c].form = "other" THEN 501
                                     ELSE IF req[c].form = "malformed" THEN 400
                                     ELSE 0]
  /\ Goto(c, "closed")
  /\ UNCHANGED <<clock, req, at, decision, ips, peer, store, reports>>

ReadConnect(c) ==
  /\ pc[c] = "idle"
  /\ req[c].form = "connect"
  /\ at' = [at EXCEPT ![c] = clock]
  /\ Goto(c, "authorize")
  /\ UNCHANGED <<clock, req, decision, reply, ips, peer, store, reports>>

\* A canary destination is refused and recorded before any other rule.
TripCanary(c) ==
  /\ pc[c] = "authorize"
  /\ IsCanary(req[c].host)
  /\ audited' = [audited EXCEPT ![c] = Append(@, "canary")]
  /\ Refuse(c, "canary", 403)
  /\ UNCHANGED <<clock, req, at, ips, peer, store, observed>>

\* Without trusted roots the allow-list decides.
CheckAllowList(c) ==
  /\ pc[c] = "authorize"
  /\ ~IsCanary(req[c].host)
  /\ ~TokenGated
  /\ \/ HostAllowed(req[c].host) /\ Proceed(c, "resolve")
     \/ ~HostAllowed(req[c].host) /\ Refuse(c, "not in allow-list", 403)
  /\ UNCHANGED <<clock, req, at, ips, peer, store, reports>>

\* With trusted roots the header's chain and action decide, at the captured time.
CheckToken(c) ==
  /\ pc[c] = "authorize"
  /\ ~IsCanary(req[c].host)
  /\ TokenGated
  /\ LET why == TokenDenial(req[c], at[c]) IN
       \/ why = "none" /\ Proceed(c, "nonce")
       \/ why # "none" /\ Refuse(c, why, 403)
  /\ UNCHANGED <<clock, req, at, ips, peer, store, reports>>

\* Mutant: prunes an entry at the last instant its leaf is valid.
PrunedAtExpiry(t) ==
  [l \in Leaves |-> IF NotAfter[l] = 0 \/ NotAfter[l] > t
                    THEN highWater[l] ELSE Untracked]

\* What the store keeps when a thread enters it with clock value t.
Pruned(t) ==
  [l \in Leaves |-> IF NotAfter[l] = 0 \/ NotAfter[l] >= t
                    THEN highWater[l] ELSE Untracked]

Fresh(kept, l, n) == n > kept[l]
Recorded(kept, l, n) == [kept EXCEPT ![l] = n]

\* check_and_record, in one critical section: prune, compare, record.
CheckNonce(c) ==
  /\ pc[c] = "nonce"
  /\ LET kept == Pruned(at[c])
         l == req[c].leaf
         n == req[c].nonce
     IN \/ /\ Fresh(kept, l, n)
           /\ highWater' = Recorded(kept, l, n)
           /\ admitted' = admitted \cup {c}
           /\ Proceed(c, "resolve")
        \/ /\ ~Fresh(kept, l, n)
           /\ highWater' = kept
           /\ Refuse(c, "replayed token", 403)
           /\ UNCHANGED admitted
  /\ UNCHANGED <<clock, req, at, ips, peer, audited, observed>>

\* The resolver fails, or answers with some list of addresses.
ResolveFails(c) ==
  /\ pc[c] = "resolve"
  /\ Refuse(c, "unresolved", 502)
  /\ UNCHANGED <<clock, req, at, ips, peer, store, reports>>

Resolve(c) ==
  /\ pc[c] = "resolve"
  /\ \E answer \in Answers : ips' = [ips EXCEPT ![c] = answer]
  /\ Goto(c, "evaluate")
  /\ UNCHANGED <<clock, req, at, decision, reply, peer, store, reports>>

\* Mutant: an allow goes straight to the upstream, unreported.
EvaluateThenConnect(c) ==
  /\ pc[c] = "evaluate"
  /\ LET d == Evaluate(req[c].host, ips[c]) IN
       \/ /\ d = "allow"
          /\ decision' = [decision EXCEPT ![c] = "allow"]
          /\ Goto(c, "connect")
          /\ UNCHANGED reply
       \/ /\ d # "allow"
          /\ Refuse(c, d, 403)
  /\ UNCHANGED <<clock, req, at, ips, peer, store, reports>>

\* Mutant: a denial by the resolved-address policy ends the decision only.
EvaluateStalls(c) ==
  /\ pc[c] = "evaluate"
  /\ Evaluate(req[c].host, ips[c]) = "allow"
  /\ decision' = [decision EXCEPT ![c] = "allow"]
  /\ Goto(c, "audit")
  /\ UNCHANGED <<clock, req, at, reply, ips, peer, store, reports>>

EvaluateAnswer(c) ==
  /\ pc[c] = "evaluate"
  /\ LET d == Evaluate(req[c].host, ips[c]) IN
       \/ /\ d = "allow"
          /\ decision' = [decision EXCEPT ![c] = "allow"]
          /\ Goto(c, "audit")
          /\ UNCHANGED reply
       \/ /\ d # "allow"
          /\ Refuse(c, d, 403)
  /\ UNCHANGED <<clock, req, at, ips, peer, store, reports>>

\* report_final, its audit half: a canary trip already has its own event.
ReportAudit(c) ==
  /\ pc[c] = "audit"
  /\ audited' = IF decision[c] = "canary" THEN audited
                ELSE [audited EXCEPT ![c] = Append(@, decision[c])]
  /\ Goto(c, "hook")
  /\ UNCHANGED <<clock, req, at, decision, reply, ips, peer, store, observed>>

\* report_final, its hook half; a denial is then answered with its status.
ReportHook(c) ==
  /\ pc[c] = "hook"
  /\ observed' = [observed EXCEPT ![c] = Append(@, decision[c])]
  /\ Goto(c, IF decision[c] = "allow" THEN "connect" ELSE "closed")
  /\ UNCHANGED <<clock, req, at, decision, reply, ips, peer, store, audited>>

\* Connect to the first vetted address, or fail after the verdict was reported.
Connect(c) ==
  /\ pc[c] = "connect"
  /\ ips[c] # <<>>
  /\ peer' = [peer EXCEPT ![c] = {Head(ips[c])}]
  /\ reply' = [reply EXCEPT ![c] = 200]
  /\ Goto(c, "tunnel")
  /\ UNCHANGED <<clock, req, at, decision, ips, store, reports>>

ConnectFails(c) ==
  /\ pc[c] = "connect"
  /\ reply' = [reply EXCEPT ![c] = 502]
  /\ Goto(c, "closed")
  /\ UNCHANGED <<clock, req, at, decision, ips, peer, store, reports>>

TunnelEnds(c) ==
  /\ pc[c] = "tunnel"
  /\ Goto(c, "closed")
  /\ UNCHANGED <<clock, req, at, decision, reply, ips, peer, store, reports>>

Handle(c) ==
  \/ ReadOther(c) \/ ReadConnect(c) \/ TripCanary(c) \/ CheckAllowList(c)
  \/ CheckToken(c) \/ CheckNonce(c) \/ ResolveFails(c) \/ Resolve(c)
  \/ EvaluateAnswer(c) \/ ReportAudit(c) \/ ReportHook(c)
  \/ Connect(c) \/ ConnectFails(c)

Next == Tick \/ \E c \in Conns : Handle(c) \/ TunnelEnds(c)

Spec == Init /\ [][Next]_vars

\* Every broker thread keeps running: reads and the upstream connect have
\* timeouts (proxy.rs:72, 156), the locks are held for bounded work and never
\* nested.  Nothing makes a tunnel end.
FairSpec == Spec /\ \A c \in Conns : WF_vars(Handle(c))
-----------------------------------------------------------------------------
(* Properties.                                                             *)

\* The variables hold what the code's types and guards allow.
TypeOK ==
  /\ clock \in 0..MaxTime
  /\ pc \in [Conns -> Steps]
  /\ req \in [Conns -> Requests]
  /\ at \in [Conns -> 0..MaxTime]
  /\ decision \in [Conns -> DenyReasons \cup {"none", "allow"}]
  /\ reply \in [Conns -> {0, 200, 400, 403, 501, 502}]
  /\ ips \in [Conns -> Answers \cup {<<>>}]
  /\ peer \in [Conns -> SUBSET Addresses]
  /\ highWater \in [Leaves -> Nonces \cup {Untracked}]
  /\ admitted \subseteq Conns
  /\ audited \in [Conns -> Seq(DenyReasons \cup {"allow"})]
  /\ observed \in [Conns -> Seq(DenyReasons \cup {"allow"})]

SameLeaf(c, d) == req[c].leaf = req[d].leaf

\* The anti-replay gate (nonce.rs:78) never admits two connections with one
\* leaf and one nonce while that leaf can still pass chain verification,
\* whatever the order in which the threads reach the store with the clock
\* values they captured earlier.
NoReplayWhileLive ==
  \A c, d \in admitted :
    c # d /\ SameLeaf(c, d) /\ req[c].nonce = req[d].nonce
      => Expired(NotAfter[req[c].leaf], clock)

\* The gate refuses a nonce as replayed only when that leaf had an equal or a
\* higher nonce admitted: other leaves, refused requests and pruning never
\* cost an agent a nonce (nonce.rs:11, "unrelated agents never collide").
NoSpuriousReplay ==
  \A c \in Conns : decision[c] = "replayed token" =>
    \E d \in admitted : SameLeaf(c, d) /\ req[d].nonce >= req[c].nonce

\* Every decided CONNECT leaves exactly one audit event and one hook call, both
\* naming the decision it was answered with, before bytes flow or the thread
\* ends; an undecided request leaves none (policy.rs:283, report_final).
OneVerdict ==
  \A c \in Conns :
    /\ pc[c] \in {"connect", "tunnel", "closed"} /\ decision[c] # "none" =>
         audited[c] = <<decision[c]>> /\ observed[c] = <<decision[c]>>
    /\ decision[c] = "none" => audited[c] = <<>> /\ observed[c] = <<>>
    /\ reply[c] = 200 => observed[c] = <<"allow">>
    /\ reply[c] = 403 => decision[c] \in DenyReasons

\* A thread that connected upstream went to an address it had vetted: the host
\* passed the allow-list and is no canary, the address is one the resolver
\* returned and outside the blocked ranges, and a token-gated connection spent
\* a nonce of a leaf that grants the host (proxy.rs:139-157).
TunnelVetted ==
  \A c \in Conns : \A a \in peer[c] :
    /\ \E i \in DOMAIN ips[c] : ips[c][i] = a
    /\ BlockPrivate => a \notin Blocked
    /\ HostAllowed(req[c].host) /\ ~IsCanary(req[c].host)
    /\ TokenGated => /\ c \in admitted
                     /\ \E d \in Grants[req[c].leaf] : HostMatches(req[c].host, d)

\* No name is looked up for a request that authorization refuses: not for a
\* canary, not without an admitted token when tokens are required, not for a
\* host outside the allow-list otherwise (proxy.rs:118).
LookupAuthorized ==
  \A c \in Conns : pc[c] \in {"resolve", "evaluate", "connect", "tunnel"} =>
    /\ \A d \in Canaries : ~HostMatches(req[c].host, d)
    /\ IF TokenGated THEN c \in admitted ELSE HostAllowed(req[c].host)

\* Nothing is looked up, and nobody connected to, before it is authorized.
AuthorizedFirst == LookupAuthorized /\ TunnelVetted

\* The broker implements the gate: what the hook saw is the published verdict.
Verdict(c) ==
  IF observed[c] = <<>> THEN "pending"
  ELSE IF observed[c][Len(observed[c])] = "allow" THEN "allow" ELSE "deny"

Gate == INSTANCE EgressGate WITH
          verdict <- [c \in Conns |-> Verdict(c)],
          open <- {c \in Conns : pc[c] = "tunnel"}

\* One published verdict per connection, never revised, and no byte relayed
\* before an allow verdict (policy.rs:283-289).
ImplementsGate == Gate!Spec

\* Every CONNECT the broker has read is answered or tunnelled.
Answered ==
  \A c \in Conns : pc[c] = "authorize" ~> pc[c] \in {"tunnel", "closed"}

=============================================================================
