SPECIFICATION WallsSpec
CONSTANTS
  ql = ql
  p1 = p1
  agent = agent
  evil = evil
  script = script
  blob = blob
  home = home
  user = user
  ssh = ssh
  key = key
  c1 = c1
  c2 = c2
  port = port
  port2 = port2
  lf = lf
  lr = lr
  nul = nul
  Pids = {ql, p1}
  Child = ql
  Files = {agent, evil, script, blob}
  Approved = {agent, script}
  Unhashable = {blob}
  Interpreter <- MCInterpreter
  Calls <- MCCalls
  EventRoom = 4
  ArgvRoom = 2
  MaxInflight = 1
  MaxExecs = 3
  MaxBorn = 3
  Nothing = nothing
  Rules <- MCRules
  TokenMax = 2
  ArgvMax = 6
  Nul = nul
  Chars = {lf, lr}
  Conns = {c1, c2}
  Ports = {port, port2}
  MaxOwners = 2
  Names = {home, user, ssh, key}
  Paths <- MCPaths
  Star = star
  MaxMade = 1
  Setups <- MCSetups
INVARIANTS SparesTheRest KillsTheDenied NamesOpener HiddenStays
PROPERTIES ExecsAccounted
CHECK_DEADLOCK FALSE
