CONSTANTS
  c1 = c1  c2 = c2  c3 = c3  l1 = l1  l2 = l2
  Conns = {c1, c2}
  Leaves = {l1, l2}
  Trusted = {l1, l2}
  Hosts <- MCHosts
  Subdomain <- MCSubdomain
  Addresses <- MCAddresses
  Blocked <- MCBlocked
  Answers <- MCAnswers
  AllowDomains <- MCAllow
  Canaries <- MCCanaries
  Grants <- MCGrants
  NotAfter <- MCNotAfter
  ChainNotAfter <- MCChainNotAfter
  Requests <- StaticRequests
  Nonces = {0}
  MaxTime = 0
  DefaultDeny = TRUE
  BlockPrivate = TRUE
  TokenGated = FALSE
CHECK_DEADLOCK FALSE
SPECIFICATION FairSpec
PROPERTIES ImplementsGate Answered
