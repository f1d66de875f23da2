------------------------ MODULE BrokerEgress_proofs ------------------------
(***************************************************************************)
(* Theorems about BrokerEgress, for any number of connections, leaves,    *)
(* nonces, hosts and any policy.                                           *)
(*                                                                         *)
(* ThreadInv says what a thread's place in handle_connection implies for  *)
(* its decision, its reply and its two reports; with TypeOK it is         *)
(* inductive, and OneVerdict and the refinement of EgressGate follow.     *)
(* ClearsInv says what a thread past the gate was checked against.         *)
(* StoreInv relates the anti-replay store to the admissions so far.        *)
(***************************************************************************)
EXTENDS BrokerEgress, TLAPS

USE DEF Untracked

\* A thread at step p with decision d, reply r, audit events a and hook calls o.
Consistent(p, d, r, a, o) ==
  /\ p \in {"idle", "authorize", "nonce", "resolve", "evaluate"} =>
       d = "none" /\ r = 0 /\ a = <<>> /\ o = <<>>
  /\ p = "audit" =>
       d # "none" /\ o = <<>> /\ a = IF d = "canary" THEN <<"canary">> ELSE <<>>
  /\ p = "hook" => d # "none" /\ o = <<>> /\ a = <<d>>
  /\ p \in {"connect", "tunnel"} => d = "allow" /\ o = <<"allow">> /\ a = <<"allow">>
  /\ p = "closed" =>
       IF d = "none" THEN r \in {0, 400, 501} /\ a = <<>> /\ o = <<>>
                     ELSE a = <<d>> /\ o = <<d>>
  /\ r = 200 => p \in {"tunnel", "closed"} /\ d = "allow"
  /\ r = 403 => d \in DenyReasons

ThreadInv(c) == Consistent(pc[c], decision[c], reply[c], audited[c], observed[c])

ThreadsInv == \A c \in Conns : ThreadInv(c)

LEMMA RequestFields ==
  ASSUME NEW r \in Requests
  PROVE  /\ r.form \in Forms /\ r.host \in Hosts /\ r.auth \in Auths
         /\ r.leaf \in Leaves /\ r.nonce \in Nonces /\ r.nonce \in Nat
         /\ r.domain \in Hosts
BY TokenAssumption DEF RequestType

LEMMA InitType == Init => TypeOK
<1>. SUFFICES ASSUME Init PROVE TypeOK
  OBVIOUS
<1>1. 0 \in 0..MaxTime
  BY TokenAssumption
<1>. QED
  BY <1>1 DEF Init, TypeOK, Steps

PlainReasons == DenyReasons \ {"canary"}

LEMMA Reasons ==
  /\ "canary" \in DenyReasons /\ "replayed token" \in DenyReasons
  /\ "not in allow-list" \in DenyReasons /\ "unresolved" \in DenyReasons
  /\ "none" \notin DenyReasons /\ "allow" \notin DenyReasons
BY DEF DenyReasons

LEMMA PlainFacts ==
  /\ "replayed token" \in PlainReasons /\ "not in allow-list" \in PlainReasons
  /\ "unresolved" \in PlainReasons
BY DEF PlainReasons, DenyReasons

LEMMA TokenDenialType ==
  ASSUME NEW r, NEW t PROVE TokenDenial(r, t) \in PlainReasons \cup {"none"}
BY DEF PlainReasons, DenyReasons, TokenDenial

LEMMA EvaluateType ==
  ASSUME NEW h, NEW answer PROVE Evaluate(h, answer) \in PlainReasons \cup {"allow"}
BY DEF PlainReasons, DenyReasons, Evaluate

LEMMA StepNames ==
  /\ "authorize" \in Steps /\ "nonce" \in Steps /\ "resolve" \in Steps
  /\ "evaluate" \in Steps /\ "audit" \in Steps /\ "hook" \in Steps
  /\ "connect" \in Steps /\ "tunnel" \in Steps /\ "closed" \in Steps
BY DEF Steps

LEMMA Appended ==
  ASSUME NEW S, NEW f \in [Conns -> Seq(S)], NEW c \in Conns, NEW x \in S
  PROVE  [f EXCEPT ![c] = Append(@, x)] \in [Conns -> Seq(S)]
<1>1. Append(f[c], x) \in Seq(S)
  OBVIOUS
<1>. QED
  BY <1>1

LEMMA MaxTimeNat == MaxTime \in Nat
BY TokenAssumption

\* A refusal keeps the types of what it assigns.
LEMMA RefuseType ==
  ASSUME TypeOK, NEW c \in Conns, NEW why \in DenyReasons, NEW code \in {403, 502},
         Refuse(c, why, code)
  PROVE  /\ pc' \in [Conns -> Steps]
         /\ decision' \in [Conns -> DenyReasons \cup {"none", "allow"}]
         /\ reply' \in [Conns -> {0, 200, 400, 403, 501, 502}]
<1>1. /\ pc' = [pc EXCEPT ![c] = "audit"]
      /\ decision' = [decision EXCEPT ![c] = why]
      /\ reply' = [reply EXCEPT ![c] = code]
  BY DEF Refuse, Goto
<1>2. /\ pc \in [Conns -> Steps]
      /\ decision \in [Conns -> DenyReasons \cup {"none", "allow"}]
      /\ reply \in [Conns -> {0, 200, 400, 403, 501, 502}]
  BY DEF TypeOK
<1>3. pc' \in [Conns -> Steps]
  BY <1>1, <1>2, StepNames
<1>4. decision' \in [Conns -> DenyReasons \cup {"none", "allow"}]
  BY <1>1, <1>2
<1>5. reply' \in [Conns -> {0, 200, 400, 403, 501, 502}]
  BY <1>1, <1>2
<1>. QED
  BY <1>3, <1>4, <1>5

\* A refusal that changes nothing else keeps every type.
LEMMA RefuseKeepsTypes ==
  ASSUME TypeOK, NEW c \in Conns, NEW why \in DenyReasons, NEW code \in {403, 502},
         Refuse(c, why, code),
         UNCHANGED <<clock, req, at, ips, peer, store, reports>>
  PROVE  TypeOK'
<1>1. /\ pc' \in [Conns -> Steps]
      /\ decision' \in [Conns -> DenyReasons \cup {"none", "allow"}]
      /\ reply' \in [Conns -> {0, 200, 400, 403, 501, 502}]
  BY RefuseType
<1>. QED
  BY <1>1 DEF TypeOK, store, reports

(* What the deciding steps of handle_connection do to their thread.        *)

LEMMA UnfoldAllowList ==
  ASSUME NEW c \in Conns, CheckAllowList(c)
  PROVE  /\ pc[c] = "authorize"
         /\ UNCHANGED <<clock, req, at, ips, peer, store, reports>>
         /\ Proceed(c, "resolve") \/ Refuse(c, "not in allow-list", 403)
BY Zenon DEF CheckAllowList

LEMMA UnfoldToken ==
  ASSUME NEW c \in Conns, CheckToken(c)
  PROVE  /\ pc[c] = "authorize"
         /\ UNCHANGED <<clock, req, at, ips, peer, store, reports>>
         /\ Proceed(c, "nonce") \/ \E why \in PlainReasons : Refuse(c, why, 403)
BY TokenDenialType, Zenon DEF CheckToken

LEMMA UnfoldNonce ==
  ASSUME NEW c \in Conns, CheckNonce(c)
  PROVE  /\ pc[c] = "nonce"
         /\ UNCHANGED <<clock, req, at, ips, peer, audited, observed>>
         /\ \/ /\ Fresh(Pruned(at[c]), req[c].leaf, req[c].nonce)
               /\ highWater' = [Pruned(at[c]) EXCEPT ![req[c].leaf] = req[c].nonce]
               /\ admitted' = admitted \cup {c}
               /\ Proceed(c, "resolve")
            \/ /\ ~Fresh(Pruned(at[c]), req[c].leaf, req[c].nonce)
               /\ highWater' = Pruned(at[c]) /\ UNCHANGED admitted
               /\ Refuse(c, "replayed token", 403)
BY Zenon DEF CheckNonce, Recorded

LEMMA UnfoldEvaluate ==
  ASSUME NEW c \in Conns, EvaluateAnswer(c)
  PROVE  /\ pc[c] = "evaluate"
         /\ UNCHANGED <<clock, req, at, ips, peer, store, reports>>
         /\ \/ /\ Evaluate(req[c].host, ips[c]) = "allow"
               /\ decision' = [decision EXCEPT ![c] = "allow"]
               /\ Goto(c, "audit") /\ UNCHANGED reply
            \/ \E why \in PlainReasons : Refuse(c, why, 403)
BY EvaluateType, Zenon DEF EvaluateAnswer

LEMMA PrunedType ==
  ASSUME TypeOK, NEW c \in Conns
  PROVE  /\ Pruned(at[c]) \in [Leaves -> Nonces \cup {Untracked}]
         /\ req[c].leaf \in Leaves /\ req[c].nonce \in Nonces
BY RequestFields DEF TypeOK, Pruned

LEMMA NonceType ==
  ASSUME TypeOK, NEW c \in Conns, CheckNonce(c)
  PROVE  TypeOK'
<1>1. UNCHANGED <<clock, req, at, ips, peer, audited, observed>>
  BY UnfoldNonce
<1>2. CASE /\ highWater' = [Pruned(at[c]) EXCEPT ![req[c].leaf] = req[c].nonce]
           /\ admitted' = admitted \cup {c}
           /\ Proceed(c, "resolve")
  <2>1. highWater' \in [Leaves -> Nonces \cup {Untracked}]
    BY <1>2, PrunedType
  <2>. QED
    BY <1>1, <1>2, <2>1, StepNames DEF TypeOK, Proceed, Goto
<1>3. CASE /\ highWater' = Pruned(at[c]) /\ UNCHANGED admitted
           /\ Refuse(c, "replayed token", 403)
  <2>1. highWater' \in [Leaves -> Nonces \cup {Untracked}]
    BY <1>3, PrunedType
  <2>2. Refuse(c, "replayed token", 403) /\ UNCHANGED admitted
    BY <1>3
  <2>. QED
    <3>1. /\ pc' \in [Conns -> Steps]
          /\ decision' \in [Conns -> DenyReasons \cup {"none", "allow"}]
          /\ reply' \in [Conns -> {0, 200, 400, 403, 501, 502}]
      BY <2>2, Reasons, RefuseType, ZenonT(60)
    <3>. QED
      BY <1>1, <2>1, <2>2, <3>1, ZenonT(30) DEF TypeOK
<1>. QED
  BY <1>2, <1>3, UnfoldNonce, ZenonT(30)

-----------------------------------------------------------------------------
LEMMA TypeStep == TypeOK /\ ThreadsInv /\ [Next]_vars => TypeOK'
<1>. SUFFICES ASSUME TypeOK, ThreadsInv, [Next]_vars
              PROVE  TypeOK'
  OBVIOUS
<1>1. CASE Tick
  BY <1>1, MaxTimeNat DEF Tick, TypeOK, store, reports, Goto
<1>2. ASSUME NEW c \in Conns, ReadOther(c)
      PROVE  TypeOK'
  BY <1>2, StepNames DEF ReadOther, TypeOK, store, reports, Goto
<1>3. ASSUME NEW c \in Conns, ReadConnect(c)
      PROVE  TypeOK'
  BY <1>3, StepNames DEF ReadConnect, TypeOK, store, reports, Goto
<1>4. ASSUME NEW c \in Conns, TripCanary(c)
      PROVE  TypeOK'
  <2>1. /\ Refuse(c, "canary", 403)
        /\ audited' = [audited EXCEPT ![c] = Append(@, "canary")]
        /\ UNCHANGED <<clock, req, at, ips, peer, store, observed>>
    BY <1>4, Zenon DEF TripCanary
  <2>2. audited' \in [Conns -> Seq(DenyReasons \cup {"allow"})]
    BY <2>1, Reasons, Appended DEF TypeOK
  <2>3. /\ pc' \in [Conns -> Steps]
        /\ decision' \in [Conns -> DenyReasons \cup {"none", "allow"}]
        /\ reply' \in [Conns -> {0, 200, 400, 403, 501, 502}]
    BY <2>1, Reasons, RefuseType, ZenonT(30)
  <2>4. UNCHANGED <<clock, req, at, ips, peer, highWater, admitted, observed>>
    BY <2>1 DEF store
  <2>. QED
    BY <2>2, <2>3, <2>4 DEF TypeOK
<1>5. ASSUME NEW c \in Conns, CheckAllowList(c)
      PROVE  TypeOK'
  <2>1. UNCHANGED <<clock, req, at, ips, peer, store, reports>>
    BY <1>5, UnfoldAllowList
  <2>2. Proceed(c, "resolve") \/ Refuse(c, "not in allow-list", 403)
    BY <1>5, UnfoldAllowList, Zenon
  <2>3. CASE Proceed(c, "resolve")
    BY <2>1, <2>3, StepNames DEF Proceed, TypeOK, store, reports, Goto
  <2>4. CASE Refuse(c, "not in allow-list", 403)
    BY <2>1, <2>4, Reasons, RefuseKeepsTypes, ZenonT(30)
  <2>. QED
    BY <2>2, <2>3, <2>4
<1>6. ASSUME NEW c \in Conns, CheckToken(c)
      PROVE  TypeOK'
  <2>1. UNCHANGED <<clock, req, at, ips, peer, store, reports>>
    BY <1>6, UnfoldToken
  <2>2. Proceed(c, "nonce") \/ \E why \in PlainReasons : Refuse(c, why, 403)
    BY <1>6, UnfoldToken, Zenon
  <2>3. CASE Proceed(c, "nonce")
    BY <2>1, <2>3, StepNames DEF Proceed, TypeOK, store, reports, Goto
  <2>4. ASSUME NEW why \in PlainReasons, Refuse(c, why, 403)
        PROVE  TypeOK'
    <3>1. why \in DenyReasons
      BY DEF PlainReasons
    <3>. QED
      BY <2>1, <2>4, <3>1, RefuseKeepsTypes
  <2>. QED
    BY <2>2, <2>3, <2>4
<1>7. ASSUME NEW c \in Conns, CheckNonce(c)
      PROVE  TypeOK'
  BY <1>7, NonceType
<1>8. ASSUME NEW c \in Conns, ResolveFails(c)
      PROVE  TypeOK'
  <2>1. /\ Refuse(c, "unresolved", 502)
        /\ UNCHANGED <<clock, req, at, ips, peer, store, reports>>
    BY <1>8, Zenon DEF ResolveFails
  <2>2. "unresolved" \in DenyReasons /\ 502 \in {403, 502}
    BY Reasons
  <2>. QED
    BY <2>1, <2>2, RefuseKeepsTypes
<1>9. ASSUME NEW c \in Conns, Resolve(c)
      PROVE  TypeOK'
  BY <1>9, StepNames DEF Resolve, TypeOK, store, reports, Goto
<1>10. ASSUME NEW c \in Conns, EvaluateAnswer(c)
       PROVE  TypeOK'
  <2>1. UNCHANGED <<clock, req, at, ips, peer, store, reports>>
    BY <1>10, UnfoldEvaluate
  <2>2. \/ /\ decision' = [decision EXCEPT ![c] = "allow"]
           /\ Goto(c, "audit")
           /\ UNCHANGED reply
        \/ \E why \in PlainReasons : Refuse(c, why, 403)
    BY <1>10, UnfoldEvaluate, Zenon
  <2>3. CASE /\ decision' = [decision EXCEPT ![c] = "allow"]
             /\ Goto(c, "audit")
             /\ UNCHANGED reply
    BY <2>1, <2>3, StepNames DEF TypeOK, store, reports, Goto
  <2>4. ASSUME NEW why \in PlainReasons, Refuse(c, why, 403)
        PROVE  TypeOK'
    <3>1. why \in DenyReasons
      BY DEF PlainReasons
    <3>. QED
      BY <2>1, <2>4, <3>1, RefuseKeepsTypes
  <2>. QED
    BY <2>2, <2>3, <2>4
<1>11. ASSUME NEW c \in Conns, ReportAudit(c)
       PROVE  TypeOK'
  <2>1. decision[c] \in DenyReasons \cup {"allow"}
    BY <1>11 DEF ReportAudit, ThreadsInv, ThreadInv, Consistent, TypeOK
  <2>. QED
    BY <1>11, <2>1, StepNames DEF ReportAudit, TypeOK, store, reports, Goto
<1>12. ASSUME NEW c \in Conns, ReportHook(c)
       PROVE  TypeOK'
  <2>1. decision[c] \in DenyReasons \cup {"allow"}
    BY <1>12 DEF ReportHook, ThreadsInv, ThreadInv, Consistent, TypeOK
  <2>. QED
    BY <1>12, <2>1, StepNames DEF ReportHook, TypeOK, store, reports, Goto
<1>13. ASSUME NEW c \in Conns, Connect(c)
       PROVE  TypeOK'
  <2>1. Head(ips[c]) \in Addresses
    BY <1>13, PolicyAssumption DEF Connect, TypeOK, store, reports, Goto
  <2>. QED
    BY <1>13, <2>1, StepNames DEF Connect, TypeOK, store, reports, Goto
<1>14. ASSUME NEW c \in Conns, ConnectFails(c)
       PROVE  TypeOK'
  BY <1>14, StepNames DEF ConnectFails, TypeOK, store, reports, Goto
<1>15. ASSUME NEW c \in Conns, TunnelEnds(c)
       PROVE  TypeOK'
  BY <1>15, StepNames DEF TunnelEnds, TypeOK, store, reports, Goto
<1>16. CASE UNCHANGED vars
  BY <1>16 DEF vars, TypeOK, store, reports, Goto
<1>. QED
  BY <1>1, <1>2, <1>3, <1>4, <1>5, <1>6, <1>7, <1>8, <1>9, <1>10, <1>11,
     <1>12, <1>13, <1>14, <1>15, <1>16 DEF Next, Handle

-----------------------------------------------------------------------------
\* A thread's step leaves the other threads' own state alone.
LEMMA Frame ==
  ASSUME TypeOK, NEW c \in Conns, Handle(c) \/ TunnelEnds(c),
         NEW d \in Conns, d # c
  PROVE  /\ pc'[d] = pc[d] /\ decision'[d] = decision[d] /\ reply'[d] = reply[d]
         /\ audited'[d] = audited[d] /\ observed'[d] = observed[d]
<1>. USE DEF TypeOK, Goto, reports
<1>1. CASE ReadOther(c) \/ ReadConnect(c) \/ ResolveFails(c) \/ Resolve(c)
  BY <1>1 DEF ReadOther, ReadConnect, ResolveFails, Resolve, Refuse
<1>2. CASE TripCanary(c)
  <2>1. /\ Refuse(c, "canary", 403) /\ UNCHANGED observed
        /\ audited' = [audited EXCEPT ![c] = Append(@, "canary")]
    BY <1>2, Zenon DEF TripCanary
  <2>. QED
    BY <2>1 DEF Refuse
<1>3. CASE \E step \in Steps : Proceed(c, step) /\ UNCHANGED <<audited, observed>>
  BY <1>3 DEF Proceed
<1>4. CASE \E why \in PlainReasons : Refuse(c, why, 403) /\ UNCHANGED <<audited, observed>>
  BY <1>4 DEF Refuse
<1>5. CASE CheckAllowList(c)
  BY <1>3, <1>4, <1>5, UnfoldAllowList, StepNames, PlainFacts, ZenonT(30)
<1>6. CASE CheckToken(c)
  BY <1>3, <1>4, <1>6, UnfoldToken, StepNames, ZenonT(30)
<1>7. CASE CheckNonce(c)
  BY <1>3, <1>4, <1>7, UnfoldNonce, StepNames, PlainFacts, ZenonT(30)
<1>8. CASE EvaluateAnswer(c)
  <2>1. CASE /\ decision' = [decision EXCEPT ![c] = "allow"]
             /\ Goto(c, "audit") /\ UNCHANGED <<reply, audited, observed>>
    BY <2>1
  <2>. QED
    BY <1>4, <1>8, <2>1, UnfoldEvaluate, ZenonT(30)
<1>9. CASE ReportAudit(c) \/ ReportHook(c)
  BY <1>9 DEF ReportAudit, ReportHook
<1>10. CASE Connect(c) \/ ConnectFails(c) \/ TunnelEnds(c)
  BY <1>10 DEF Connect, ConnectFails, TunnelEnds
<1>. QED
  BY <1>1, <1>2, <1>5, <1>6, <1>7, <1>8, <1>9, <1>10 DEF Handle


-----------------------------------------------------------------------------
(* Every step keeps the thread it moves consistent.                        *)

Becomes(c, p, d, r, a, o) ==
  /\ pc'[c] = p /\ decision'[c] = d /\ reply'[c] = r
  /\ audited'[c] = a /\ observed'[c] = o

Undecided(c) ==
  decision[c] = "none" /\ reply[c] = 0 /\ audited[c] = <<>> /\ observed[c] = <<>>

LEMMA BecomesInv ==
  ASSUME NEW c, NEW p, NEW d, NEW r, NEW a, NEW o,
         Becomes(c, p, d, r, a, o), Consistent(p, d, r, a, o)
  PROVE  ThreadInv(c)'
BY Zenon DEF Becomes, ThreadInv

LEMMA ThreadUndecided ==
  ASSUME NEW c, ThreadInv(c),
         pc[c] \in {"idle", "authorize", "nonce", "resolve", "evaluate"}
  PROVE  Undecided(c)
BY DEF ThreadInv, Consistent, Undecided

LEMMA ProceedInv ==
  ASSUME TypeOK, NEW c \in Conns, Undecided(c),
         NEW p \in {"authorize", "nonce", "resolve", "evaluate"}, Goto(c, p),
         UNCHANGED <<decision, reply, audited, observed>>
  PROVE  ThreadInv(c)'
<1>1. Becomes(c, p, "none", 0, <<>>, <<>>)
  BY DEF TypeOK, Undecided, Goto, Becomes
<1>2. Consistent(p, "none", 0, <<>>, <<>>)
  BY DEF Consistent
<1>. QED
  BY <1>1, <1>2, BecomesInv

LEMMA RefuseInv ==
  ASSUME TypeOK, NEW c \in Conns, Undecided(c), NEW why \in PlainReasons,
         NEW code \in {403, 502}, Refuse(c, why, code), UNCHANGED <<audited, observed>>
  PROVE  ThreadInv(c)'
<1>1. Becomes(c, "audit", why, code, <<>>, <<>>)
  BY DEF TypeOK, Undecided, Refuse, Goto, Becomes
<1>2. why \in DenyReasons /\ why # "none" /\ why # "canary"
  BY Reasons, ZenonT(30) DEF PlainReasons
<1>3. Consistent("audit", why, code, <<>>, <<>>)
  BY <1>2 DEF Consistent
<1>. QED
  BY <1>1, <1>3, BecomesInv

LEMMA CanaryInv ==
  ASSUME TypeOK, NEW c \in Conns, ThreadInv(c), TripCanary(c)
  PROVE  ThreadInv(c)'
<1>1. /\ Refuse(c, "canary", 403) /\ UNCHANGED observed /\ pc[c] = "authorize"
      /\ audited' = [audited EXCEPT ![c] = Append(@, "canary")]
  BY Zenon DEF TripCanary
<1>2. Undecided(c)
  BY <1>1, ThreadUndecided
<1>3. audited'[c] = <<"canary">>
  BY <1>1, <1>2 DEF TypeOK, Undecided
<1>4. Becomes(c, "audit", "canary", 403, <<"canary">>, <<>>)
  BY <1>1, <1>2, <1>3 DEF TypeOK, Undecided, Refuse, Goto, Becomes
<1>5. Consistent("audit", "canary", 403, <<"canary">>, <<>>)
  BY "canary" \in DenyReasons DEF Consistent, DenyReasons
<1>. QED
  BY <1>4, <1>5, BecomesInv

LEMMA ReadInv ==
  ASSUME TypeOK, NEW c \in Conns, ThreadInv(c), ReadOther(c) \/ ReadConnect(c)
  PROVE  ThreadInv(c)'
<1>1. Undecided(c)
  BY ThreadUndecided DEF ReadOther, ReadConnect
<1>2. CASE ReadOther(c)
  <2>1. PICK r \in {0, 400, 501} : reply'[c] = r
    BY <1>2 DEF ReadOther, TypeOK
  <2>2. Becomes(c, "closed", "none", r, <<>>, <<>>)
    BY <1>1, <1>2, <2>1 DEF ReadOther, TypeOK, Undecided, Goto, Becomes, reports
  <2>3. Consistent("closed", "none", r, <<>>, <<>>)
    BY DEF Consistent
  <2>. QED
    BY <2>2, <2>3, BecomesInv
<1>3. CASE ReadConnect(c)
  BY <1>1, <1>3, ProceedInv DEF ReadConnect, reports
<1>. QED
  BY <1>2, <1>3

LEMMA AuthorizeInv ==
  ASSUME TypeOK, NEW c \in Conns, ThreadInv(c), CheckAllowList(c) \/ CheckToken(c)
  PROVE  ThreadInv(c)'
<1>1. pc[c] = "authorize" /\ UNCHANGED <<audited, observed>>
  BY UnfoldAllowList, UnfoldToken DEF reports
<1>2. Undecided(c)
  BY <1>1, ThreadUndecided
<1>3. ASSUME Proceed(c, "nonce") \/ Proceed(c, "resolve")
      PROVE  ThreadInv(c)'
  BY <1>1, <1>2, <1>3, ProceedInv DEF Proceed
<1>4. ASSUME NEW why \in PlainReasons, Refuse(c, why, 403)
      PROVE  ThreadInv(c)'
  BY <1>1, <1>2, <1>4, RefuseInv
<1>. QED
  BY <1>3, <1>4, UnfoldAllowList, UnfoldToken, PlainFacts, ZenonT(30)

LEMMA NonceInv ==
  ASSUME TypeOK, NEW c \in Conns, ThreadInv(c), CheckNonce(c)
  PROVE  ThreadInv(c)'
<1>1. pc[c] = "nonce" /\ UNCHANGED <<audited, observed>>
  BY UnfoldNonce
<1>2. Undecided(c)
  BY <1>1, ThreadUndecided
<1>3. CASE Proceed(c, "resolve")
  BY <1>1, <1>2, <1>3, ProceedInv DEF Proceed
<1>4. CASE Refuse(c, "replayed token", 403)
  BY <1>1, <1>2, <1>4, RefuseInv, PlainFacts, ZenonT(30)
<1>. QED
  BY <1>3, <1>4, UnfoldNonce, Zenon

LEMMA ResolveInv ==
  ASSUME TypeOK, NEW c \in Conns, ThreadInv(c),
         ResolveFails(c) \/ Resolve(c) \/ EvaluateAnswer(c)
  PROVE  ThreadInv(c)'
<1>1. Undecided(c)
  BY ThreadUndecided, UnfoldEvaluate DEF ResolveFails, Resolve
<1>2. CASE ResolveFails(c)
  <2>1. Refuse(c, "unresolved", 502) /\ UNCHANGED <<audited, observed>>
    BY <1>2, Zenon DEF ResolveFails, reports
  <2>2. "unresolved" \in PlainReasons /\ 502 \in {403, 502}
    <3>1. "unresolved" \in PlainReasons
      BY PlainFacts, ZenonT(30)
    <3>2. 502 \in {403, 502}
      OBVIOUS
    <3>. QED
      BY <3>1, <3>2, ZenonT(30)
  <2>. QED
    BY <1>1, <2>1, <2>2, RefuseInv
<1>3. CASE Resolve(c)
  BY <1>1, <1>3, ProceedInv DEF Resolve, reports
<1>4. CASE EvaluateAnswer(c)
  <2>1. UNCHANGED <<audited, observed>>
    BY <1>4, UnfoldEvaluate DEF reports
  <2>2. CASE /\ decision' = [decision EXCEPT ![c] = "allow"]
             /\ Goto(c, "audit") /\ UNCHANGED reply
    <3>1. Becomes(c, "audit", "allow", 0, <<>>, <<>>)
      BY <1>1, <2>1, <2>2 DEF TypeOK, Undecided, Goto, Becomes
    <3>2. Consistent("audit", "allow", 0, <<>>, <<>>)
      BY DEF Consistent
    <3>. QED
      BY <3>1, <3>2, BecomesInv
  <2>3. ASSUME NEW why \in PlainReasons, Refuse(c, why, 403)
        PROVE  ThreadInv(c)'
    BY <1>1, <2>1, <2>3, RefuseInv
  <2>. QED
    BY <1>4, <2>2, <2>3, UnfoldEvaluate, Zenon
<1>. QED
  BY <1>2, <1>3, <1>4

LEMMA ReportInv ==
  ASSUME TypeOK, NEW c \in Conns, ThreadInv(c), ReportAudit(c) \/ ReportHook(c)
  PROVE  ThreadInv(c)'
<1>. DEFINE d == decision[c]
            r == reply[c]
<1>1. CASE ReportAudit(c)
  <2>1. /\ pc[c] = "audit" /\ observed[c] = <<>>
        /\ audited[c] = IF d = "canary" THEN <<"canary">> ELSE <<>>
    BY <1>1 DEF ReportAudit, ThreadInv, Consistent
  <2>2. Becomes(c, "hook", d, r, <<d>>, <<>>)
    BY <1>1, <2>1 DEF ReportAudit, TypeOK, Goto, Becomes
  <2>3. Consistent("hook", d, r, <<d>>, <<>>)
    BY <2>1 DEF ThreadInv, Consistent
  <2>. QED
    BY <2>2, <2>3, BecomesInv
<1>2. CASE ReportHook(c)
  <2>. DEFINE p == IF d = "allow" THEN "connect" ELSE "closed"
  <2>1. pc[c] = "hook" /\ observed[c] = <<>> /\ audited[c] = <<d>>
    BY <1>2 DEF ReportHook, ThreadInv, Consistent
  <2>2. Becomes(c, p, d, r, <<d>>, <<d>>)
    BY <1>2, <2>1 DEF ReportHook, TypeOK, Goto, Becomes
  <2>3. Consistent(p, d, r, <<d>>, <<d>>)
    BY <2>1 DEF ThreadInv, Consistent
  <2>. QED
    BY <2>2, <2>3, BecomesInv
<1>. QED
  BY <1>1, <1>2

LEMMA ConnectInv ==
  ASSUME TypeOK, NEW c \in Conns, ThreadInv(c),
         Connect(c) \/ ConnectFails(c) \/ TunnelEnds(c)
  PROVE  ThreadInv(c)'
<1>. DEFINE d == decision[c]
            r == reply[c]
            a == audited[c]
            o == observed[c]
<1>1. CASE Connect(c)
  <2>1. pc[c] = "connect" /\ Becomes(c, "tunnel", d, 200, a, o)
    BY <1>1 DEF Connect, TypeOK, Goto, reports, Becomes
  <2>2. Consistent("tunnel", d, 200, a, o)
    BY <2>1 DEF ThreadInv, Consistent
  <2>. QED
    BY <2>1, <2>2, BecomesInv
<1>2. CASE ConnectFails(c)
  <2>1. pc[c] = "connect" /\ Becomes(c, "closed", d, 502, a, o)
    BY <1>2 DEF ConnectFails, TypeOK, Goto, reports, Becomes
  <2>2. Consistent("closed", d, 502, a, o)
    BY <2>1 DEF ThreadInv, Consistent
  <2>. QED
    BY <2>1, <2>2, BecomesInv
<1>3. CASE TunnelEnds(c)
  <2>1. pc[c] = "tunnel" /\ Becomes(c, "closed", d, r, a, o)
    BY <1>3 DEF TunnelEnds, TypeOK, Goto, reports, Becomes
  <2>2. Consistent("closed", d, r, a, o)
    BY <2>1 DEF ThreadInv, Consistent
  <2>. QED
    BY <2>1, <2>2, BecomesInv
<1>. QED
  BY <1>1, <1>2, <1>3

LEMMA ThreadStep == TypeOK /\ ThreadsInv /\ [Next]_vars => ThreadsInv'
<1>. SUFFICES ASSUME TypeOK, ThreadsInv, [Next]_vars
              PROVE  ThreadsInv'
  OBVIOUS
<1>1. CASE Tick
  BY <1>1 DEF Tick, ThreadsInv, ThreadInv, reports
<1>2. ASSUME NEW c \in Conns, Handle(c) \/ TunnelEnds(c)
      PROVE  ThreadsInv'
  <2>1. ASSUME NEW d \in Conns, d # c
        PROVE  ThreadInv(d)'
    BY <1>2, <2>1, Frame DEF ThreadsInv, ThreadInv
  <2>2. ThreadInv(c)
    BY DEF ThreadsInv
  <2>3. ThreadInv(c)'
    BY <1>2, <2>2, ReadInv, CanaryInv, AuthorizeInv, NonceInv, ResolveInv,
       ReportInv, ConnectInv, Zenon DEF Handle
  <2>. QED
    BY <2>1, <2>3, Zenon DEF ThreadsInv
<1>3. CASE UNCHANGED vars
  BY <1>3 DEF vars, reports, ThreadsInv, ThreadInv
<1>. QED
  BY <1>1, <1>2, <1>3 DEF Next

-----------------------------------------------------------------------------
LEMMA InitThreads == Init => ThreadsInv
<1>. SUFFICES ASSUME Init, NEW c \in Conns PROVE ThreadInv(c)
  BY DEF ThreadsInv
<1>1. Consistent("idle", "none", 0, <<>>, <<>>)
  BY DEF Consistent
<1>. QED
  BY <1>1 DEF Init, ThreadInv

\* Every reachable state is of the types and in the thread invariant.
LEMMA Inductive == Spec => [](TypeOK /\ ThreadsInv)
<1>1. Init => TypeOK /\ ThreadsInv
  BY InitType, InitThreads
<1>2. TypeOK /\ ThreadsInv /\ [Next]_vars => (TypeOK /\ ThreadsInv)'
  BY TypeStep, ThreadStep
<1>. QED
  BY <1>1, <1>2, PTL DEF Spec

\* Type correctness: the variables of the broker stay in the ranges the code's
\* types and guards give them (proxy.rs, policy.rs, nonce.rs).
THEOREM TypeCorrect == Spec => []TypeOK
BY Inductive, PTL

LEMMA ThreadsVerdict == TypeOK /\ ThreadsInv => OneVerdict
<1>. SUFFICES ASSUME TypeOK, ThreadsInv, NEW c \in Conns
              PROVE  /\ pc[c] \in {"connect", "tunnel", "closed"} /\ decision[c] # "none" =>
                          audited[c] = <<decision[c]>> /\ observed[c] = <<decision[c]>>
                     /\ decision[c] = "none" => audited[c] = <<>> /\ observed[c] = <<>>
                     /\ reply[c] = 200 => observed[c] = <<"allow">>
                     /\ reply[c] = 403 => decision[c] \in DenyReasons
  BY Zenon DEF OneVerdict
<1>1. pc[c] \in Steps
  BY DEF TypeOK
<1>2. Consistent(pc[c], decision[c], reply[c], audited[c], observed[c])
  BY DEF ThreadsInv, ThreadInv
<1>. QED
  BY <1>1, <1>2 DEF Consistent, Steps

\* Exactly one audit event and one hook call for every decided connection,
\* both naming its decision, before bytes flow or the thread ends
\* (policy.rs, report_final; proxy.rs, handle_connection).
THEOREM VerdictOnce == Spec => []OneVerdict
<1>1. TypeOK /\ ThreadsInv => OneVerdict
  BY ThreadsVerdict
<1>. QED
  BY <1>1, Inductive, PTL

-----------------------------------------------------------------------------
(* What a thread has been cleared for.                                     *)

Granted(c) == \E d \in Grants[req[c].leaf] : HostMatches(req[c].host, d)

Cleared(c) ==
  /\ ~IsCanary(req[c].host)
  /\ IF TokenGated THEN c \in admitted /\ Granted(c) ELSE HostAllowed(req[c].host)

\* A thread gets past authorization only when it is cleared, allows only what
\* the policy allows of the answer it holds, and keeps that answer afterwards.
ClearInv(c) ==
  /\ pc[c] = "nonce" => TokenGated /\ ~IsCanary(req[c].host) /\ Granted(c)
  /\ pc[c] \in {"resolve", "evaluate"} \/ decision[c] = "allow" => Cleared(c)
  /\ decision[c] = "allow" => Evaluate(req[c].host, ips[c]) = "allow"
  /\ peer[c] # {} =>
       decision[c] = "allow" /\ ips[c] # <<>> /\ peer[c] = {Head(ips[c])}

ClearsInv == \A c \in Conns : ClearInv(c)

LEMMA TokenGrants ==
  ASSUME NEW r, NEW t, TokenDenial(r, t) = "none"
  PROVE  \E d \in Grants[r.leaf] : HostMatches(r.host, d)
BY DEF TokenDenial, Authorized

\* What a step leaves alone: every request, other threads' answers and peers,
\* and every admission.
LEMMA Untouched ==
  ASSUME TypeOK, NEW c \in Conns, Handle(c) \/ TunnelEnds(c)
  PROVE  /\ req' = req /\ admitted \subseteq admitted'
         /\ \A d \in Conns : d # c => ips'[d] = ips[d] /\ peer'[d] = peer[d]
<1>1. CASE ReadOther(c) \/ ReadConnect(c) \/ ResolveFails(c)
  BY <1>1, Zenon DEF ReadOther, ReadConnect, ResolveFails, store
<1>2. CASE TripCanary(c) \/ ReportAudit(c) \/ ReportHook(c) \/ ConnectFails(c) \/ TunnelEnds(c)
  BY <1>2, Zenon DEF TripCanary, ReportAudit, ReportHook, ConnectFails, TunnelEnds, store
<1>3. CASE CheckAllowList(c) \/ CheckToken(c)
  BY <1>3, UnfoldAllowList, UnfoldToken, ZenonT(30) DEF store
<1>4. CASE CheckNonce(c)
  <2>1. UNCHANGED <<req, ips, peer>>
    BY <1>4, UnfoldNonce
  <2>2. admitted' = admitted \/ admitted' = admitted \cup {c}
    BY <1>4, UnfoldNonce, Zenon
  <2>. QED
    BY <2>1, <2>2
<1>5. CASE EvaluateAnswer(c)
  BY <1>5, UnfoldEvaluate, Zenon DEF store
<1>6. CASE Resolve(c) \/ Connect(c)
  BY <1>6 DEF Resolve, Connect, store, TypeOK
<1>. QED
  BY <1>1, <1>2, <1>3, <1>4, <1>5, <1>6, Zenon DEF Handle

\* A step that does not move c, or moves it without clearing it for more.
LEMMA ClearKept ==
  ASSUME NEW c \in Conns, ClearInv(c), req' = req, admitted \subseteq admitted',
         ips'[c] = ips[c], peer'[c] = peer[c],
         decision'[c] = decision[c] \/ (peer[c] = {} /\ decision'[c] # "allow"),
         pc'[c] \in {"nonce", "resolve", "evaluate"} => pc'[c] = pc[c]
  PROVE  ClearInv(c)'
<1>1. Granted(c)' <=> Granted(c)
  BY Zenon DEF Granted
<1>2. Cleared(c) => Cleared(c)'
  BY <1>1 DEF Cleared
<1>. QED
  BY <1>1, <1>2 DEF ClearInv

\* A refusal: the thread has no peer yet, because it has decided nothing.
LEMMA ClearRefuse ==
  ASSUME TypeOK, NEW c \in Conns, ClearInv(c), Undecided(c), NEW why \in DenyReasons,
         NEW code, Refuse(c, why, code), req' = req, admitted \subseteq admitted',
         UNCHANGED <<ips, peer>>
  PROVE  ClearInv(c)'
<1>1. pc'[c] = "audit" /\ decision'[c] = why
  BY DEF Refuse, Goto, TypeOK
<1>3. why # "allow"
  BY Reasons
<1>2. peer[c] = {}
  BY DEF Undecided, ClearInv
<1>. QED
  BY <1>1, <1>2, <1>3, ClearKept

LEMMA ClearAuthorize ==
  ASSUME TypeOK, NEW c \in Conns, ClearInv(c), Undecided(c),
         CheckAllowList(c) \/ CheckToken(c)
  PROVE  ClearInv(c)'
<1>1. /\ ~IsCanary(req[c].host)
      /\ UNCHANGED <<req, ips, peer, admitted>>
  BY Zenon DEF CheckAllowList, CheckToken, store
<1>2. peer[c] = {}
  BY DEF Undecided, ClearInv
<1>3. (Cleared(c)' <=> Cleared(c)) /\ (Granted(c)' <=> Granted(c))
  BY <1>1, Zenon DEF Cleared, Granted
<1>4. CASE ~TokenGated /\ HostAllowed(req[c].host) /\ Proceed(c, "resolve")
  <2>1. pc'[c] = "resolve" /\ decision'[c] = "none"
    BY <1>4 DEF Proceed, Goto, Undecided, TypeOK
  <2>2. Cleared(c)'
    BY <1>1, <1>3, <1>4 DEF Cleared
  <2>. QED
    BY <1>1, <1>2, <2>1, <2>2 DEF ClearInv
<1>5. CASE TokenGated /\ TokenDenial(req[c], at[c]) = "none" /\ Proceed(c, "nonce")
  <2>1. pc'[c] = "nonce" /\ decision'[c] = "none"
    BY <1>5 DEF Proceed, Goto, Undecided, TypeOK
  <2>2. Granted(c)
    BY <1>5, TokenGrants, Zenon DEF Granted
  <2>. QED
    BY <1>1, <1>2, <1>3, <1>5, <2>1, <2>2 DEF ClearInv
<1>6. ASSUME NEW why \in DenyReasons, Refuse(c, why, 403)
      PROVE  ClearInv(c)'
  BY <1>1, <1>6, ClearRefuse
<1>7. CASE CheckAllowList(c)
  BY <1>4, <1>6, <1>7, Reasons, Zenon DEF CheckAllowList
<1>8. CASE CheckToken(c)
  <2>1. TokenDenial(req[c], at[c]) # "none" => TokenDenial(req[c], at[c]) \in DenyReasons
    BY TokenDenialType DEF PlainReasons
  <2>. QED
    BY <1>5, <1>6, <1>8, <2>1, Zenon DEF CheckToken
<1>. QED
  BY <1>7, <1>8

LEMMA ClearNonce ==
  ASSUME TypeOK, NEW c \in Conns, ClearInv(c), Undecided(c), CheckNonce(c)
  PROVE  ClearInv(c)'
<1>1. pc[c] = "nonce" /\ UNCHANGED <<req, ips, peer>>
  BY UnfoldNonce
<1>2. peer[c] = {} /\ TokenGated /\ ~IsCanary(req[c].host) /\ Granted(c)
  BY <1>1 DEF Undecided, ClearInv
<1>3. CASE admitted' = admitted \cup {c} /\ Proceed(c, "resolve")
  <2>1. pc'[c] = "resolve" /\ decision'[c] = "none"
    BY <1>3 DEF Proceed, Goto, Undecided, TypeOK
  <2>2. Granted(c)'
    BY <1>1, <1>2, Zenon DEF Granted
  <2>3. Cleared(c)'
    BY <1>1, <1>2, <1>3, <2>2 DEF Cleared
  <2>. QED
    BY <1>1, <1>2, <2>1, <2>3 DEF ClearInv
<1>4. CASE UNCHANGED admitted /\ Refuse(c, "replayed token", 403)
  BY <1>1, <1>4, Reasons, ClearRefuse
<1>. QED
  BY <1>3, <1>4, UnfoldNonce, Zenon

LEMMA ClearResolve ==
  ASSUME TypeOK, NEW c \in Conns, ClearInv(c), Undecided(c), Resolve(c)
  PROVE  ClearInv(c)'
<1>1. /\ pc[c] = "resolve" /\ pc'[c] = "evaluate"
      /\ decision'[c] = "none" /\ UNCHANGED <<req, peer, admitted>>
  BY DEF Resolve, Goto, store, TypeOK, Undecided
<1>2. peer[c] = {} /\ Cleared(c)
  BY <1>1 DEF Undecided, ClearInv
<1>3. Cleared(c)'
  BY <1>1, <1>2, Zenon DEF Cleared, Granted
<1>. QED
  BY <1>1, <1>2, <1>3 DEF ClearInv

LEMMA ClearEvaluate ==
  ASSUME TypeOK, NEW c \in Conns, ClearInv(c), Undecided(c), EvaluateAnswer(c)
  PROVE  ClearInv(c)'
<1>1. pc[c] = "evaluate" /\ UNCHANGED <<req, ips, peer, admitted>>
  BY UnfoldEvaluate DEF store
<1>2. peer[c] = {} /\ Cleared(c)
  BY <1>1 DEF Undecided, ClearInv
<1>3. Cleared(c)'
  BY <1>1, <1>2, Zenon DEF Cleared, Granted
<1>4. CASE /\ Evaluate(req[c].host, ips[c]) = "allow"
           /\ decision' = [decision EXCEPT ![c] = "allow"]
           /\ Goto(c, "audit")
  <2>1. pc'[c] = "audit" /\ Evaluate(req'[c].host, ips'[c]) = "allow"
    BY <1>1, <1>4 DEF Goto, TypeOK
  <2>. QED
    BY <1>1, <1>2, <1>3, <2>1 DEF ClearInv
<1>5. ASSUME NEW why \in PlainReasons, Refuse(c, why, 403)
      PROVE  ClearInv(c)'
  <2>1. why \in DenyReasons
    BY DEF PlainReasons
  <2>. QED
    BY <1>1, <1>5, <2>1, ClearRefuse
<1>. QED
  BY <1>4, <1>5, UnfoldEvaluate, Zenon

LEMMA ClearConnect ==
  ASSUME TypeOK, NEW c \in Conns, ThreadInv(c), ClearInv(c), Connect(c)
  PROVE  ClearInv(c)'
<1>1. decision[c] = "allow"
  BY DEF Connect, ThreadInv, Consistent
<1>2. /\ UNCHANGED <<req, ips, decision, admitted>> /\ ips[c] # <<>>
      /\ pc'[c] = "tunnel" /\ peer'[c] = {Head(ips[c])}
  BY DEF Connect, Goto, store, TypeOK
<1>3. Cleared(c)' /\ Evaluate(req'[c].host, ips'[c]) = "allow"
  BY <1>1, <1>2, Zenon DEF ClearInv, Cleared, Granted
<1>. QED
  BY <1>1, <1>2, <1>3 DEF ClearInv

\* A thread's own step.
LEMMA ClearMoves ==
  ASSUME TypeOK, NEW c \in Conns, ThreadInv(c), ClearInv(c), Handle(c) \/ TunnelEnds(c)
  PROVE  ClearInv(c)'
<1>1. req' = req /\ admitted \subseteq admitted'
  BY Untouched
<1>2. pc[c] \in {"idle", "authorize", "nonce", "resolve", "evaluate"} => Undecided(c)
  BY ThreadUndecided
<1>3. CASE ReadOther(c) \/ ReadConnect(c) \/ ReportAudit(c) \/ ReportHook(c)
           \/ ConnectFails(c) \/ TunnelEnds(c)
  <2>1. UNCHANGED <<decision, ips, peer>> /\ pc'[c] \notin {"nonce", "resolve", "evaluate"}
    BY <1>3 DEF ReadOther, ReadConnect, ReportAudit, ReportHook, ConnectFails,
                TunnelEnds, Goto, TypeOK
  <2>. QED
    BY <1>1, <2>1, ClearKept
<1>4. CASE TripCanary(c)
  <2>1. pc[c] = "authorize" /\ Refuse(c, "canary", 403) /\ UNCHANGED <<ips, peer>>
    BY <1>4, Zenon DEF TripCanary
  <2>. QED
    BY <1>1, <1>2, <2>1, Reasons, ClearRefuse
<1>5. CASE ResolveFails(c)
  <2>1. pc[c] = "resolve" /\ Refuse(c, "unresolved", 502) /\ UNCHANGED <<ips, peer>>
    BY <1>5, Zenon DEF ResolveFails
  <2>. QED
    BY <1>1, <1>2, <2>1, Reasons, ClearRefuse, ZenonT(30)
<1>6. CASE CheckAllowList(c) \/ CheckToken(c)
  BY <1>2, <1>6, UnfoldAllowList, UnfoldToken, ClearAuthorize
<1>7. CASE CheckNonce(c)
  BY <1>2, <1>7, UnfoldNonce, ClearNonce
<1>8. CASE Resolve(c)
  BY <1>2, <1>8, ClearResolve DEF Resolve
<1>9. CASE EvaluateAnswer(c)
  BY <1>2, <1>9, UnfoldEvaluate, ClearEvaluate
<1>10. CASE Connect(c)
  BY <1>10, ClearConnect
<1>. QED
  BY <1>3, <1>4, <1>5, <1>6, <1>7, <1>8, <1>9, <1>10, Zenon DEF Handle

LEMMA ClearStep ==
  TypeOK /\ ThreadsInv /\ ClearsInv /\ [Next]_vars => ClearsInv'
<1>. SUFFICES ASSUME TypeOK, ThreadsInv, ClearsInv, [Next]_vars, NEW d \in Conns
              PROVE  ClearInv(d)'
  BY DEF ClearsInv
<1>1. ThreadInv(d) /\ ClearInv(d)
  BY DEF ThreadsInv, ClearsInv
<1>2. CASE Tick \/ UNCHANGED vars
  BY <1>1, <1>2, ClearKept DEF Tick, vars, store
<1>3. ASSUME NEW c \in Conns, Handle(c) \/ TunnelEnds(c), c # d
      PROVE  ClearInv(d)'
  BY <1>1, <1>3, Frame, Untouched, ClearKept
<1>4. CASE Handle(d) \/ TunnelEnds(d)
  BY <1>1, <1>4, ClearMoves
<1>. QED
  BY <1>2, <1>3, <1>4, Zenon DEF Next

LEMMA InitClears == Init => ClearsInv
BY DEF Init, ClearsInv, ClearInv

LEMMA AllowVetted ==
  ASSUME NEW h, NEW answer, Evaluate(h, answer) = "allow"
  PROVE  /\ HostAllowed(h)
         /\ BlockPrivate => \A i \in DOMAIN answer : answer[i] \notin Blocked
BY DEF Evaluate

LEMMA ClearsAuthorize == TypeOK /\ ThreadsInv /\ ClearsInv => AuthorizedFirst
<1>. SUFFICES ASSUME TypeOK, ThreadsInv, ClearsInv
              PROVE  LookupAuthorized /\ TunnelVetted
  BY DEF AuthorizedFirst
<1>1. LookupAuthorized
  <2>. SUFFICES ASSUME NEW c \in Conns, pc[c] \in {"resolve", "evaluate", "connect", "tunnel"}
                PROVE  /\ \A d \in Canaries : ~HostMatches(req[c].host, d)
                       /\ IF TokenGated THEN c \in admitted ELSE HostAllowed(req[c].host)
    BY Zenon DEF LookupAuthorized
  <2>1. pc[c] \in {"connect", "tunnel"} => decision[c] = "allow"
    BY DEF ThreadsInv, ThreadInv, Consistent
  <2>2. Cleared(c)
    BY <2>1 DEF ClearsInv, ClearInv
  <2>. QED
    BY <2>2 DEF Cleared, IsCanary
<1>2. TunnelVetted
  <2>. SUFFICES ASSUME NEW c \in Conns, NEW a \in peer[c]
                PROVE  /\ \E i \in DOMAIN ips[c] : ips[c][i] = a
                       /\ BlockPrivate => a \notin Blocked
                       /\ HostAllowed(req[c].host) /\ ~IsCanary(req[c].host)
                       /\ TokenGated => c \in admitted /\ Granted(c)
    BY Zenon DEF TunnelVetted, Granted
  <2>1. /\ decision[c] = "allow" /\ ips[c] # <<>> /\ a = Head(ips[c])
        /\ Cleared(c) /\ Evaluate(req[c].host, ips[c]) = "allow"
    BY DEF ClearsInv, ClearInv
  <2>2. ips[c] \in Answers /\ Answers \subseteq Seq(Addresses)
    BY <2>1, PolicyAssumption DEF TypeOK
  <2>3. 1 \in DOMAIN ips[c] /\ ips[c][1] = a
    BY <2>1, <2>2
  <2>. QED
    BY <2>1, <2>3, AllowVetted DEF Cleared
<1>. QED
  BY <1>1, <1>2

\* No name is looked up and no address connected to for a request that was not
\* authorized: the canaries, the allow-list or the token gate, and the vetting
\* of every address, in this order (proxy.rs:106-157).
THEOREM LooksUpAuthorized == Spec => []AuthorizedFirst
<1>1. Init => ClearsInv
  BY InitClears
<1>2. TypeOK /\ ThreadsInv /\ ClearsInv /\ [Next]_vars => ClearsInv'
  BY ClearStep
<1>3. TypeOK /\ ThreadsInv /\ ClearsInv => AuthorizedFirst
  BY ClearsAuthorize
<1>. QED
  BY <1>1, <1>2, <1>3, Inductive, PTL DEF Spec

-----------------------------------------------------------------------------
(* The broker implements EgressGate: the verdict the hook has seen is the *)
(* published one, and the tunnels are the open connections.  Publishing   *)
(* is the hook half of report_final; every other step of a thread, and    *)
(* the clock, is invisible to the gate.                                    *)

Verdicts == [c \in Conns |-> Verdict(c)]
Tunnels == {c \in Conns : pc[c] = "tunnel"}

LEMMA GateInit == Init => Gate!Init
BY Zenon DEF Init, Gate!Init, Verdict

\* A step outside the hook and the tunnel is a stutter of the gate.
LEMMA Quiet ==
  ASSUME NEW c \in Conns, UNCHANGED observed,
         \A d \in Conns : pc'[d] = "tunnel" <=> pc[d] = "tunnel"
  PROVE  UNCHANGED <<Verdicts, Tunnels>>
BY DEF Verdicts, Tunnels, Verdict

LEMMA QuietStep ==
  ASSUME TypeOK, NEW c \in Conns, UNCHANGED observed,
         NEW p, pc' = [pc EXCEPT ![c] = p], p # "tunnel", pc[c] # "tunnel"
  PROVE  UNCHANGED <<Verdicts, Tunnels>>
BY Quiet, ZenonT(30) DEF TypeOK

LEMMA HookStep ==
  ASSUME TypeOK, NEW c \in Conns, ThreadInv(c), ReportHook(c)
  PROVE  \E v \in {"allow", "deny"} : Gate!Publish(c, v)
<1>. DEFINE v == IF decision[c] = "allow" THEN "allow" ELSE "deny"
<1>1. pc[c] = "hook" /\ observed[c] = <<>>
  BY DEF ReportHook, ThreadInv, Consistent
<1>2. observed'[c] = <<decision[c]>>
  BY <1>1 DEF ReportHook, TypeOK
<1>3. \A d \in Conns : d # c => observed'[d] = observed[d]
  BY DEF ReportHook, TypeOK
<1>4. Verdict(c) = "pending" /\ Verdict(c)' = v
  BY <1>1, <1>2 DEF Verdict
<1>5. \A d \in Conns : d # c => Verdict(d)' = Verdict(d)
  BY <1>3 DEF Verdict
<1>6. Verdicts' = [Verdicts EXCEPT ![c] = v]
  BY <1>4, <1>5 DEF Verdicts
<1>7. Tunnels' = Tunnels
  BY <1>1 DEF Tunnels, ReportHook, Goto, TypeOK
<1>8. Gate!Publish(c, v)
  BY <1>4, <1>6, <1>7, Zenon DEF Gate!Publish, Verdicts, Tunnels
<1>. QED
  BY <1>8

LEMMA OpenStep ==
  ASSUME TypeOK, NEW c \in Conns, ThreadInv(c), Connect(c)
  PROVE  Gate!Open(c)
<1>1. pc[c] = "connect" /\ observed[c] = <<"allow">>
  BY DEF Connect, ThreadInv, Consistent
<1>2. Verdict(c) = "allow"
  BY <1>1 DEF Verdict
<1>3. observed' = observed /\ pc' = [pc EXCEPT ![c] = "tunnel"]
  BY DEF Connect, Goto, reports
<1>4. Verdicts' = Verdicts
  BY <1>3 DEF Verdicts, Verdict
<1>5. c \notin Tunnels /\ Tunnels' = Tunnels \cup {c}
  BY <1>1, <1>3 DEF Tunnels, TypeOK
<1>. QED
  BY <1>2, <1>4, <1>5, Zenon DEF Gate!Open, Verdicts, Tunnels

LEMMA CloseStep ==
  ASSUME TypeOK, NEW c \in Conns, TunnelEnds(c)
  PROVE  Gate!Close(c)
<1>1. pc[c] = "tunnel" /\ observed' = observed /\ pc' = [pc EXCEPT ![c] = "closed"]
  BY DEF TunnelEnds, Goto, reports
<1>2. Verdicts' = Verdicts
  BY <1>1 DEF Verdicts, Verdict
<1>3. c \in Tunnels /\ Tunnels' = Tunnels \ {c}
  BY <1>1 DEF Tunnels, TypeOK
<1>. QED
  BY <1>2, <1>3, Zenon DEF Gate!Close, Verdicts, Tunnels

\* The steps the gate does not see.
LEMMA InvisibleStep ==
  ASSUME TypeOK, NEW c \in Conns, Handle(c), ~ReportHook(c), ~Connect(c)
  PROVE  UNCHANGED <<Verdicts, Tunnels>>
<1>. USE DEF reports, Goto
<1>1. CASE \E p \in Steps \ {"tunnel"} :
             /\ pc[c] # "tunnel" /\ UNCHANGED observed
             /\ pc' = [pc EXCEPT ![c] = p]
  BY <1>1, QuietStep
<1>2. {"authorize", "nonce", "resolve", "evaluate", "audit", "hook", "closed"}
        \subseteq Steps \ {"tunnel"}
  BY DEF Steps
<1>3. ReadOther(c) \/ ReadConnect(c) \/ Resolve(c) \/ ReportAudit(c) \/ ConnectFails(c)
        => \E p \in Steps \ {"tunnel"} :
             /\ pc[c] # "tunnel" /\ UNCHANGED observed
             /\ pc' = [pc EXCEPT ![c] = p]
  BY <1>2 DEF ReadOther, ReadConnect, Resolve, ReportAudit, ConnectFails
<1>4. ASSUME pc[c] # "tunnel", UNCHANGED observed,
             Proceed(c, "nonce") \/ Proceed(c, "resolve") \/ Goto(c, "audit")
      PROVE  UNCHANGED <<Verdicts, Tunnels>>
  BY <1>1, <1>2, <1>4 DEF Proceed
<1>5. ASSUME NEW why, NEW code, pc[c] # "tunnel", UNCHANGED observed, Refuse(c, why, code)
      PROVE  UNCHANGED <<Verdicts, Tunnels>>
  BY <1>4, <1>5, Zenon DEF Refuse
<1>6. CASE TripCanary(c)
  <2>1. pc[c] # "tunnel" /\ UNCHANGED observed /\ Refuse(c, "canary", 403)
    BY <1>6, Zenon DEF TripCanary
  <2>. QED
    BY <1>5, <2>1
<1>7. CASE ResolveFails(c)
  BY <1>5, <1>7 DEF ResolveFails
<1>8. CASE CheckAllowList(c) \/ CheckToken(c) \/ CheckNonce(c) \/ EvaluateAnswer(c)
  <2>1. pc[c] # "tunnel" /\ UNCHANGED observed
    BY <1>8, UnfoldAllowList, UnfoldToken, UnfoldNonce, UnfoldEvaluate, ZenonT(30)
  <2>2. \/ Proceed(c, "nonce") \/ Proceed(c, "resolve") \/ Goto(c, "audit")
        \/ Refuse(c, "not in allow-list", 403) \/ Refuse(c, "replayed token", 403)
        \/ \E why \in PlainReasons : Refuse(c, why, 403)
    BY <1>8, UnfoldAllowList, UnfoldToken, UnfoldNonce, UnfoldEvaluate, ZenonT(30)
  <2>. QED
    BY <1>4, <1>5, <2>1, <2>2, ZenonT(30)
<1>. QED
  BY <1>1, <1>3, <1>6, <1>7, <1>8, Zenon DEF Handle

LEMMA GateStep ==
  TypeOK /\ ThreadsInv /\ [Next]_vars => [Gate!Next]_(Gate!gateVars)
<1>. SUFFICES ASSUME TypeOK, ThreadsInv, [Next]_vars
              PROVE  Gate!Next \/ UNCHANGED <<Verdicts, Tunnels>>
  BY Zenon DEF Gate!gateVars, Verdicts, Tunnels
<1>1. CASE Tick \/ UNCHANGED vars
  BY <1>1 DEF Tick, vars, reports, Verdicts, Tunnels, Verdict
<1>2. ASSUME NEW c \in Conns, Handle(c)
      PROVE  Gate!Next \/ UNCHANGED <<Verdicts, Tunnels>>
  <2>1. ThreadInv(c)
    BY DEF ThreadsInv
  <2>2. CASE ReportHook(c)
    BY <2>1, <2>2, HookStep, Zenon DEF Gate!Next
  <2>3. CASE Connect(c)
    BY <2>1, <2>3, OpenStep, Zenon DEF Gate!Next
  <2>. QED
    BY <1>2, <2>2, <2>3, InvisibleStep
<1>3. ASSUME NEW c \in Conns, TunnelEnds(c)
      PROVE  Gate!Next
  BY <1>3, CloseStep, Zenon DEF Gate!Next
<1>. QED
  BY <1>1, <1>2, <1>3 DEF Next

\* The broker implements the gate: one verdict per connection, published once,
\* never revised, and no byte relayed before an allow verdict (proxy.rs,
\* handle_connection; policy.rs, report_final).
THEOREM Refinement == Spec => ImplementsGate
<1>1. Init => Gate!Init
  BY GateInit
<1>2. TypeOK /\ ThreadsInv /\ [Next]_vars => [Gate!Next]_(Gate!gateVars)
  BY GateStep
<1>. QED
  BY <1>1, <1>2, Inductive, PTL DEF Spec, ImplementsGate, Gate!Spec

-----------------------------------------------------------------------------
(* The anti-replay store (nonce.rs), for any number of threads entering it *)
(* with clock values in any order.  The first part of StoreInv, that a     *)
(* captured clock value is never ahead of the clock, is what makes pruning *)
(* with a stale value harmless to a leaf that has not expired.             *)

Live(l) == ~Expired(NotAfter[l], clock)

\* The captured clock values are past ones.
ClocksInv == \A c \in Conns : at[c] <= clock

\* For a leaf that has not expired the high-water mark covers every admission.
CoversInv == \A c \in admitted : Live(req[c].leaf) => req[c].nonce <= highWater[req[c].leaf]

\* A high-water mark is the nonce of some admission.
WitnessInv ==
  \A l \in Leaves : highWater[l] # Untracked =>
    \E d \in admitted : req[d].leaf = l /\ req[d].nonce = highWater[l]

StoreInv == ClocksInv /\ CoversInv /\ WitnessInv /\ NoReplayWhileLive /\ NoSpuriousReplay

LEMMA StoreInit == Init => StoreInv
BY DEF Init, StoreInv, ClocksInv, CoversInv, WitnessInv, NoReplayWhileLive, NoSpuriousReplay

-----------------------------------------------------------------------------
(* What the steps other than CheckNonce leave alone.                       *)

\* No step but CheckNonce touches the store or decides "replayed token".
Outside == 
  /\ UNCHANGED <<req, highWater, admitted>>
  /\ \A x \in Conns : decision'[x] = "replayed token" => decision[x] = "replayed token"

LEMMA TokenReasons ==
  ASSUME NEW r, NEW t PROVE TokenDenial(r, t) # "replayed token"
BY DEF TokenDenial

LEMMA EvaluateReasons ==
  ASSUME NEW h, NEW answer PROVE Evaluate(h, answer) # "replayed token"
BY DEF Evaluate

LEMMA RefuseOutside ==
  ASSUME TypeOK, NEW c \in Conns, NEW why, why # "replayed token", NEW code,
         Refuse(c, why, code), UNCHANGED <<req, store>>
  PROVE  Outside
<1>1. decision' = [decision EXCEPT ![c] = why]
  BY DEF Refuse
<1>2. decision = [x \in Conns |-> decision[x]]
  BY DEF TypeOK
<1>3. \A x \in Conns : decision'[x] = "replayed token" => decision[x] = "replayed token"
  BY <1>1, <1>2
<1>. QED
  BY <1>3 DEF Outside, store

LEMMA StepsOutside ==
  ASSUME TypeOK, NEW c \in Conns, Handle(c) \/ TunnelEnds(c), ~CheckNonce(c)
  PROVE  Outside
<1>. USE DEF store, reports
<1>1. CASE ReadOther(c) \/ ReadConnect(c) \/ Resolve(c) \/ ReportAudit(c) \/ ReportHook(c)
            \/ Connect(c) \/ ConnectFails(c) \/ TunnelEnds(c)
  BY <1>1 DEF ReadOther, ReadConnect, Resolve, ReportAudit, ReportHook, Connect,
              ConnectFails, TunnelEnds, Outside
<1>2. CASE TripCanary(c)
  <2>1. Refuse(c, "canary", 403) /\ UNCHANGED <<req, store>>
    BY <1>2, Zenon DEF TripCanary
  <2>. QED
    BY <2>1, RefuseOutside, ZenonT(30)
<1>3. CASE ResolveFails(c)
  <2>1. Refuse(c, "unresolved", 502) /\ UNCHANGED <<req, store>>
    BY <1>3, Zenon DEF ResolveFails
  <2>. QED
    BY <2>1, RefuseOutside, ZenonT(30)
<1>4. CASE CheckAllowList(c)
  <2>1. UNCHANGED <<req, store>>
    BY <1>4, UnfoldAllowList
  <2>2. CASE Proceed(c, "resolve")
    BY <2>1, <2>2 DEF Proceed, Outside
  <2>3. CASE Refuse(c, "not in allow-list", 403)
    BY <2>1, <2>3, RefuseOutside, ZenonT(30)
  <2>. QED
    BY <1>4, <2>2, <2>3, UnfoldAllowList, Zenon
<1>5. CASE CheckToken(c)
  <2>1. UNCHANGED <<req, store>>
    BY <1>5, UnfoldToken
  <2>2. CASE Proceed(c, "nonce")
    BY <2>1, <2>2 DEF Proceed, Outside
  <2>3. CASE Refuse(c, TokenDenial(req[c], at[c]), 403)
    BY <2>1, <2>3, TokenReasons, RefuseOutside
  <2>4. Proceed(c, "nonce") \/ Refuse(c, TokenDenial(req[c], at[c]), 403)
    BY <1>5, Zenon DEF CheckToken
  <2>. QED
    BY <2>2, <2>3, <2>4
<1>6. CASE EvaluateAnswer(c)
  <2>1. UNCHANGED <<req, store>>
    BY <1>6, UnfoldEvaluate
  <2>2. CASE decision' = [decision EXCEPT ![c] = "allow"]
    <3>1. decision = [x \in Conns |-> decision[x]]
      BY DEF TypeOK
    <3>2. \A x \in Conns : decision'[x] = "replayed token" => decision[x] = "replayed token"
      BY <2>2, <3>1
    <3>. QED
      BY <2>1, <3>2 DEF Outside
  <2>3. CASE Refuse(c, Evaluate(req[c].host, ips[c]), 403)
    BY <2>1, <2>3, EvaluateReasons, RefuseOutside
  <2>4. \/ decision' = [decision EXCEPT ![c] = "allow"]
        \/ Refuse(c, Evaluate(req[c].host, ips[c]), 403)
    BY <1>6, Zenon DEF EvaluateAnswer
  <2>. QED
    BY <2>2, <2>3, <2>4
<1>. QED
  BY <1>1, <1>2, <1>3, <1>4, <1>5, <1>6 DEF Handle

\* The clock never goes back, and a thread captures the present.
LEMMA ClocksStep ==
  ASSUME TypeOK, ClocksInv, [Next]_vars
  PROVE  ClocksInv' /\ clock' \in Nat /\ clock <= clock'
<1>. USE MaxTimeNat DEF TypeOK, ClocksInv, store, reports
<1>1. CASE Tick
  BY <1>1 DEF Tick
<1>2. ASSUME NEW c \in Conns, ReadConnect(c)
      PROVE  ClocksInv' /\ clock' \in Nat /\ clock <= clock'
  BY <1>2 DEF ReadConnect
<1>3. ASSUME NEW c \in Conns, Handle(c) \/ TunnelEnds(c), ~ReadConnect(c)
      PROVE  clock' = clock /\ at' = at
  <2>1. CASE CheckAllowList(c)
    BY <2>1, UnfoldAllowList, Zenon
  <2>2. CASE CheckToken(c)
    BY <2>2, UnfoldToken, Zenon
  <2>3. CASE CheckNonce(c)
    BY <2>3, UnfoldNonce, Zenon
  <2>4. CASE EvaluateAnswer(c)
    BY <2>4, UnfoldEvaluate, Zenon
  <2>5. CASE TripCanary(c)
    BY <2>5, Zenon DEF TripCanary
  <2>6. CASE ReadOther(c) \/ ResolveFails(c) \/ Resolve(c) \/ ReportAudit(c) \/ ReportHook(c)
    BY <2>6, ZenonT(30) DEF ReadOther, ResolveFails, Resolve, ReportAudit, ReportHook
  <2>7. CASE Connect(c) \/ ConnectFails(c) \/ TunnelEnds(c)
    BY <2>7, ZenonT(30) DEF Connect, ConnectFails, TunnelEnds
  <2>. QED
    BY <1>3, <2>1, <2>2, <2>3, <2>4, <2>5, <2>6, <2>7, Zenon DEF Handle
<1>4. CASE UNCHANGED vars
  BY <1>4 DEF vars
<1>. QED
  BY <1>1, <1>2, <1>3, <1>4 DEF Next

\* A leaf that is live now was live at any earlier time.
LEMMA LiveBefore ==
  ASSUME TypeOK, NEW l \in Leaves, clock' \in Nat, clock <= clock', Live(l)'
  PROVE  Live(l)
BY TokenAssumption, MaxTimeNat DEF TypeOK, Live, Expired

LEMMA OutsideStep ==
  ASSUME TypeOK, StoreInv, Outside, clock' \in Nat, clock <= clock'
  PROVE  CoversInv' /\ WitnessInv' /\ NoReplayWhileLive' /\ NoSpuriousReplay'
<1>1. ASSUME NEW l \in Leaves, Live(l)' PROVE Live(l)
  BY <1>1, LiveBefore
<1>2. \A c \in admitted : req[c].leaf \in Leaves
  BY RequestFields DEF TypeOK
<1>3. CoversInv'
  BY <1>1, <1>2 DEF StoreInv, CoversInv, Outside
<1>4. WitnessInv'
  BY Zenon DEF StoreInv, WitnessInv, Outside
<1>5. NoReplayWhileLive'
  <2>. SUFFICES ASSUME NEW d \in admitted, NEW e \in admitted, d # e, SameLeaf(d, e),
                       req[d].nonce = req[e].nonce
                PROVE  ~Live(req[d].leaf)'
    BY Zenon DEF NoReplayWhileLive, Outside, SameLeaf, Live
  <2>1. ~Live(req[d].leaf)
    BY Zenon DEF StoreInv, NoReplayWhileLive, Live
  <2>2. (req[d].leaf)' = req[d].leaf
    BY DEF Outside
  <2>. DEFINE l == req[d].leaf
  <2>3. l \in Leaves /\ ~Live(l)
    BY <1>2, <2>1
  <2>. HIDE DEF l
  <2>. QED
    BY <1>1, <2>2, <2>3 DEF l, Live
<1>6. NoSpuriousReplay'
  BY Zenon DEF StoreInv, NoSpuriousReplay, Outside, SameLeaf
<1>. QED
  BY <1>3, <1>4, <1>5, <1>6

-----------------------------------------------------------------------------
(* The critical section itself.                                            *)

\* Pruning with a captured clock value keeps the entry of every live leaf.
LEMMA PrunedKeepsLive ==
  ASSUME TypeOK, ClocksInv, NEW c \in Conns, NEW l \in Leaves, Live(l)
  PROVE  Pruned(at[c])[l] = highWater[l]
BY TokenAssumption, MaxTimeNat DEF TypeOK, ClocksInv, Live, Expired, Pruned

LEMMA MarkInt ==
  ASSUME NEW x \in Nonces \cup {Untracked} PROVE x \in Int
<1>1. Untracked \in Int
  OBVIOUS
<1>. QED
  BY <1>1, TokenAssumption

LEMMA NotAbove ==
  ASSUME NEW m \in Int, NEW n \in Nat, ~(n > m) PROVE m >= n /\ m # Untracked
OBVIOUS

LEMMA PrunedSubset ==
  ASSUME TypeOK, NEW c \in Conns, NEW l \in Leaves
  PROVE  Pruned(at[c])[l] \in {highWater[l], Untracked}
BY DEF Pruned

LEMMA AdmitStep ==
  ASSUME TypeOK, StoreInv, NEW c \in Conns,
         Fresh(Pruned(at[c]), req[c].leaf, req[c].nonce),
         highWater' = [Pruned(at[c]) EXCEPT ![req[c].leaf] = req[c].nonce],
         admitted' = admitted \cup {c}, Proceed(c, "resolve"),
         UNCHANGED <<clock, req, at>>
  PROVE  CoversInv' /\ WitnessInv' /\ NoReplayWhileLive' /\ NoSpuriousReplay'
<1>1. /\ Pruned(at[c]) \in [Leaves -> Nonces \cup {Untracked}]
      /\ req[c].leaf \in Leaves /\ req[c].nonce \in Nat
  BY PrunedType, RequestFields DEF TypeOK
<1>2. \A d \in admitted : d \in Conns /\ req[d].leaf \in Leaves /\ req[d].nonce \in Nat
  BY RequestFields DEF TypeOK
<1>3. highWater'[req[c].leaf] = req[c].nonce
  BY <1>1
<1>4. \A l \in Leaves : l # req[c].leaf => highWater'[l] = Pruned(at[c])[l]
  BY <1>1
<1>5. ASSUME NEW d \in admitted, SameLeaf(c, d), Live(req[c].leaf)
      PROVE  req[d].nonce < req[c].nonce
  <2>1. Pruned(at[c])[req[c].leaf] = highWater[req[c].leaf]
    BY <1>1, <1>5, PrunedKeepsLive DEF StoreInv
  <2>2. req[d].nonce <= highWater[req[c].leaf]
    BY <1>5 DEF StoreInv, CoversInv, SameLeaf
  <2>3. req[c].nonce > highWater[req[c].leaf]
    BY <2>1 DEF Fresh
  <2>4. highWater[req[c].leaf] \in Int
    BY <1>1, MarkInt DEF TypeOK
  <2>. QED
    BY <1>1, <1>2, <2>2, <2>3, <2>4
<1>6. CoversInv'
  <2>. SUFFICES ASSUME NEW d \in admitted \cup {c}, Live(req[d].leaf)
                PROVE  req[d].nonce <= highWater'[req[d].leaf]
    BY Zenon DEF CoversInv, Live
  <2>1. CASE d = c
    BY <1>1, <1>3, <2>1
  <2>2. CASE d \in admitted /\ req[d].leaf = req[c].leaf
    BY <1>1, <1>2, <1>3, <1>5, <2>2 DEF SameLeaf
  <2>3. CASE d \in admitted /\ req[d].leaf # req[c].leaf
    <3>1. highWater'[req[d].leaf] = highWater[req[d].leaf]
      BY <1>2, <1>4, <2>3, PrunedKeepsLive DEF StoreInv
    <3>. QED
      BY <2>3, <3>1 DEF StoreInv, CoversInv
  <2>. QED
    BY <2>1, <2>2, <2>3
<1>7. WitnessInv'
  <2>. SUFFICES ASSUME NEW l \in Leaves, highWater'[l] # Untracked
                PROVE  \E d \in admitted \cup {c} : req[d].leaf = l /\ req[d].nonce = highWater'[l]
    BY Zenon DEF WitnessInv
  <2>1. CASE l = req[c].leaf
    BY <1>3, <2>1
  <2>2. CASE l # req[c].leaf
    <3>1. highWater'[l] = highWater[l] /\ highWater[l] # Untracked
      BY <1>4, <2>2, PrunedSubset
    <3>. QED
      BY <3>1 DEF StoreInv, WitnessInv
  <2>. QED
    BY <2>1, <2>2
<1>8. NoReplayWhileLive'
  <2>. SUFFICES ASSUME NEW d \in admitted \cup {c}, NEW e \in admitted \cup {c},
                       d # e, SameLeaf(d, e), req[d].nonce = req[e].nonce,
                       Live(req[d].leaf)
                PROVE  FALSE
    BY Zenon DEF NoReplayWhileLive, SameLeaf, Live
  <2>1. CASE d \in admitted /\ e \in admitted
    BY <2>1 DEF StoreInv, NoReplayWhileLive, Live
  <2>2. CASE d = c /\ e \in admitted
    BY <1>1, <1>5, <2>2
  <2>3. CASE e = c /\ d \in admitted
    BY <1>1, <1>5, <2>3 DEF SameLeaf
  <2>. QED
    BY <2>1, <2>2, <2>3
<1>9. NoSpuriousReplay'
  BY DEF StoreInv, NoSpuriousReplay, Proceed, SameLeaf
<1>. QED
  BY <1>6, <1>7, <1>8, <1>9

LEMMA ReplayStep ==
  ASSUME TypeOK, StoreInv, NEW c \in Conns,
         ~Fresh(Pruned(at[c]), req[c].leaf, req[c].nonce),
         highWater' = Pruned(at[c]), UNCHANGED admitted,
         Refuse(c, "replayed token", 403), UNCHANGED <<clock, req, at>>
  PROVE  CoversInv' /\ WitnessInv' /\ NoReplayWhileLive' /\ NoSpuriousReplay'
<1>1. /\ Pruned(at[c]) \in [Leaves -> Nonces \cup {Untracked}]
      /\ req[c].leaf \in Leaves /\ req[c].nonce \in Nat
  BY PrunedType, RequestFields, ZenonT(30) DEF TypeOK
<1>2. \A d \in admitted : req[d].leaf \in Leaves
  BY RequestFields, ZenonT(30) DEF TypeOK
<1>3. CoversInv'
  BY <1>2, PrunedKeepsLive DEF StoreInv, CoversInv, Live
<1>4. WitnessInv'
  <2>. SUFFICES ASSUME NEW l \in Leaves, Pruned(at[c])[l] # Untracked
                PROVE  \E d \in admitted : req[d].leaf = l /\ req[d].nonce = Pruned(at[c])[l]
    BY Zenon DEF WitnessInv
  <2>. QED
    BY PrunedSubset DEF StoreInv, WitnessInv
<1>5. NoReplayWhileLive'
  BY Zenon DEF StoreInv, NoReplayWhileLive, SameLeaf
<1>6. PICK d \in admitted : req[d].leaf = req[c].leaf /\ req[d].nonce >= req[c].nonce
  <2>. DEFINE mark == Pruned(at[c])[req[c].leaf]
  <2>1. mark \in Int
    BY <1>1, MarkInt
  <2>2. ~(req[c].nonce > mark)
    BY DEF Fresh
  <2>4. mark >= req[c].nonce /\ mark # Untracked
    BY <1>1, <2>1, <2>2, NotAbove, Zenon
  <2>5. mark = highWater[req[c].leaf]
    BY <1>1, <2>4, PrunedSubset
  <2>. HIDE DEF mark
  <2>6. PICK e \in admitted : req[e].leaf = req[c].leaf /\ req[e].nonce = mark
    BY <1>1, <2>4, <2>5, Zenon DEF StoreInv, WitnessInv
  <2>. QED
    BY <2>4, <2>6
<1>7. NoSpuriousReplay'
  <2>. SUFFICES ASSUME NEW x \in Conns, decision'[x] = "replayed token"
                PROVE  \E y \in admitted : SameLeaf(x, y) /\ req[y].nonce >= req[x].nonce
    BY Zenon DEF NoSpuriousReplay, SameLeaf
  <2>1. CASE x = c
    BY <1>6, <2>1 DEF SameLeaf
  <2>2. CASE x # c
    BY <2>2, ZenonT(30) DEF StoreInv, NoSpuriousReplay, TypeOK, Refuse
  <2>. QED
    BY <2>1, <2>2
<1>. QED
  BY <1>3, <1>4, <1>5, <1>7

LEMMA StoreStep == TypeOK /\ StoreInv /\ [Next]_vars => StoreInv'
<1>. SUFFICES ASSUME TypeOK, StoreInv, [Next]_vars
              PROVE  StoreInv'
  OBVIOUS
<1>1. ClocksInv' /\ clock' \in Nat /\ clock <= clock'
  BY ClocksStep DEF StoreInv
<1>2. CASE Outside
  BY <1>1, <1>2, OutsideStep DEF StoreInv
<1>3. ASSUME NEW c \in Conns, CheckNonce(c)
      PROVE  StoreInv'
  <2>1. UNCHANGED <<clock, req, at>>
    BY <1>3, UnfoldNonce
  <2>2. CASE /\ Fresh(Pruned(at[c]), req[c].leaf, req[c].nonce)
             /\ highWater' = [Pruned(at[c]) EXCEPT ![req[c].leaf] = req[c].nonce]
             /\ admitted' = admitted \cup {c}
             /\ Proceed(c, "resolve")
    BY <1>1, <2>1, <2>2, AdmitStep DEF StoreInv
  <2>3. CASE /\ ~Fresh(Pruned(at[c]), req[c].leaf, req[c].nonce)
             /\ highWater' = Pruned(at[c]) /\ UNCHANGED admitted
             /\ Refuse(c, "replayed token", 403)
    BY <1>1, <2>1, <2>3, ReplayStep DEF StoreInv
  <2>. DEFINE Admit == /\ Fresh(Pruned(at[c]), req[c].leaf, req[c].nonce)
                       /\ highWater' = [Pruned(at[c]) EXCEPT ![req[c].leaf] = req[c].nonce]
                       /\ admitted' = admitted \cup {c}
                       /\ Proceed(c, "resolve")
  <2>. DEFINE Replay == /\ ~Fresh(Pruned(at[c]), req[c].leaf, req[c].nonce)
                        /\ highWater' = Pruned(at[c]) /\ UNCHANGED admitted
                        /\ Refuse(c, "replayed token", 403)
  <2>4. Admit \/ Replay
    BY <1>3, UnfoldNonce
  <2>5. Admit => StoreInv'
    BY <2>2
  <2>6. Replay => StoreInv'
    BY <2>3
  <2>. HIDE DEF Admit, Replay
  <2>. QED
    BY <2>4, <2>5, <2>6
<1>4. CASE Tick
  BY <1>2, <1>4 DEF Tick, Outside, store
<1>5. CASE UNCHANGED vars
  BY <1>2, <1>5 DEF vars, Outside, store
<1>6. ASSUME NEW c \in Conns, Handle(c) \/ TunnelEnds(c)
      PROVE  StoreInv'
  BY <1>2, <1>3, <1>6, StepsOutside, Zenon
<1>. QED
  BY <1>4, <1>5, <1>6 DEF Next

LEMMA StoreAlways == Spec => []StoreInv
<1>1. TypeOK /\ StoreInv /\ [Next]_vars => StoreInv'
  BY StoreStep
<1>. QED
  BY <1>1, StoreInit, TypeCorrect, PTL DEF Spec

\* The anti-replay gate never admits a nonce of a leaf twice while that leaf
\* can still pass chain verification, however the threads interleave and
\* however stale the clock values they carry (nonce.rs, check_and_record).
THEOREM ReplayRefused == Spec => []NoReplayWhileLive
<1>1. StoreInv => NoReplayWhileLive
  BY DEF StoreInv
<1>. QED
  BY <1>1, StoreAlways, PTL

\* A request is refused as replayed only after an equal or higher nonce of the
\* same leaf was admitted (nonce.rs, check_and_record).
THEOREM RefusalJustified == Spec => []NoSpuriousReplay
<1>1. StoreInv => NoSpuriousReplay
  BY DEF StoreInv
<1>. QED
  BY <1>1, StoreAlways, PTL
=============================================================================
