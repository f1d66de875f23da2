CONSTANTS
  Pids = {1, 2, 3}
  Runs = {r1, r2}
  Ids = {i1}
  NoId = NoId
  Nobody = Nobody
  MaxOutside = 1
CHECK_DEADLOCK FALSE
SPECIFICATION Spec
SYMMETRY RunSymmetry
INVARIANTS ListedWhileRunning TreeSwept NoStraySignal
