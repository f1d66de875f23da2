CONSTANTS
  root = root  a = a  b = b
  Nobody = Nobody
  Keys = {root, a, b}
  Trusted = {root}
  Verifiers = {v1}
  Grants <- MCGrants
  Caps <- MCCaps
  Actions <- MCActions
  Bodies <- MCBodies
  TTL = 1
  MaxTime = 2
  MaxTokens = 3
  MaxChain = 3
CHECK_DEADLOCK FALSE
SPECIFICATION Spec
INVARIANTS ChainDecides BundleUsable
