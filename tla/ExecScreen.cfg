CONSTANTS
  tool = tool  rogue = rogue  plain = plain  force = force
  Nothing = Nothing
  Pids = {p1, p2}
  Child = p1
  Files = {tool, rogue}
  Approved = {tool}
  Args = {plain, force}
  OwnArgv = plain
  Asks <- MCAsks
  ArgvDeny <- MCArgvDeny
  MaxExecs = 2
  MaxGen = 2
CHECK_DEADLOCK FALSE
SPECIFICATION FairSpec
   
PROPERTIES AllServed
