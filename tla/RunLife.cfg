CONSTANTS
  provider = provider  other = other  registry = registry  ws = ws  src = src
  None = None
  Domains = {provider, other, registry}
  Providers = {provider, other}
  Paths = {ws, src}
  PathIn <- MCPathIn
  Options <- MCOptions
  Documents <- MCDocuments
  Chains <- MCChains
  Phases <- MCPhases
  Workspace = ws
  Conns = {c1}
  Execs = {x1}
  Targets = {t1, t2}
  MaxNamed = 1
CHECK_DEADLOCK FALSE
SPECIFICATION FairSpec
INVARIANTS AgentBounded SummaryAddsUp RunConcluded
PROPERTIES Concludes
