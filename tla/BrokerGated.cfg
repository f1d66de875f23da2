CONSTANTS
  c1 = c1  c2 = c2  c3 = c3  l1 = l1  l2 = l2
  Conns = {c1, c2, c3}
  Leaves = {l1, l2}
  Trusted = {l1, l2}
  Hosts <- MCHosts
  Subdomain <- MCSubdomain
  Addresses <- MCAddresses
  Blocked <- MCBlocked
  Answers <- GateAnswers
  AllowDomains <- MCAllow
  Canaries <- MCCanaries
  Grants <- MCGrants
  NotAfter <- MCNotAfter
  ChainNotAfter <- MCChainNotAfter
  Requests <- GateRequests
  Nonces = {0, 1}
  MaxTime = 2
  DefaultDeny = TRUE
  BlockPrivate = TRUE
  TokenGated = TRUE
CHECK_DEADLOCK FALSE
SPECIFICATION Spec
SYMMETRY ConnSymmetry
INVARIANTS NoReplayWhileLive NoSpuriousReplay AuthorizedFirst
