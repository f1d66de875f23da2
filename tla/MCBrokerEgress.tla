--------------------------- MODULE MCBrokerEgress ---------------------------
(* Instances of BrokerEgress for TLC.                                      *)
EXTENDS BrokerEgress, TLC

CONSTANTS c1, c2, c3, l1, l2

MCHosts == {"pypi.org", "files.pypi.org", "evil.com", "trap.io", "x.trap.io"}
MCSubdomain == {<<"files.pypi.org", "pypi.org">>, <<"x.trap.io", "trap.io">>}
MCAddresses == {"public", "private"}
MCBlocked == {"private"}
MCAnswers == {<<>>, <<"public">>, <<"private">>, <<"private", "public">>,
              <<"public", "private">>}
MCAllow == {"pypi.org"}
MCCanaries == {"trap.io"}
MCGrants == [l \in {l1, l2} |-> {"pypi.org", "evil.com"}]

\* l1 expires at time 1, l2 never does; l2 has an ancestor that expires at 2.
MCNotAfter == [l \in {l1, l2} |-> IF l = l1 THEN 1 ELSE 0]
MCChainNotAfter == [l \in {l1, l2} |-> IF l = l1 THEN 1 ELSE 2]

Signed(h, l, n, d) ==
  [form |-> "connect", host |-> h, auth |-> "signed", leaf |-> l, nonce |-> n,
   domain |-> d]
Plain(form, h) ==
  [form |-> form, host |-> h, auth |-> "none", leaf |-> l1, nonce |-> 0,
   domain |-> h]

\* The static policy: every host, and the requests that are no CONNECT.
StaticRequests ==
  {Plain("connect", h) : h \in MCHosts}
    \cup {Plain(f, "pypi.org") : f \in {"malformed", "other", "gone"}}

\* Token gating: both leaves and nonces for a subdomain of the granted domain; a
\* granted host outside the allow-list, a host the action does not name, and a
\* canary (an expired l1 is the token that does not verify).
GateAnswers == {<<"public">>, <<"private", "public">>}
GateRequests ==
  {Signed("files.pypi.org", l2, n, "pypi.org") : n \in {0, 1}}
    \cup {Signed("files.pypi.org", l1, 1, "pypi.org"),
          Signed("evil.com", l2, 1, "evil.com"),
          Signed("pypi.org", l2, 1, "evil.com"),
          Signed("x.trap.io", l2, 1, "pypi.org")}

ConnSymmetry == Permutations({c1, c2, c3})
=============================================================================
