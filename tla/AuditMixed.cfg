CONSTANTS
  s1 = s1
  s2 = s2
  tool = tool
  kill = kill
  rotate = rotate
  x1 = x1
  x2 = x2
  Nobody = Nobody
  Sinks = {s1, s2}
  Tools = {tool}
  Killers = {kill}
  Rotators = {rotate}
  DiskFails = TRUE
  Exporters = {x1, x2}
  Casts <- MCCasts
CHECK_DEADLOCK FALSE
SPECIFICATION Spec
INVARIANTS SinkLossless MixtureDetected ArchiveBeforeContinue BundleStands
