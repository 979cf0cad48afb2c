SPECIFICATION FairGuardedSpec
CONSTANTS
  Devices = {a, b}
  Items = {x, y, z}
  Contents = {c1, c2, c3}
  NoContent = NoContent
  Tags = {k1, k2}
  NoTag = NoTag
  FirstKey = k1
  NoAlarm = NoAlarm
  Disasters = {}
  MaxSeq = 9
  MaxPending = 3
  MaxEdits = 3
  MaxFailures = 1
  SlowCycles = FALSE
CONSTRAINT Budget
ACTION_CONSTRAINT InOrder
VIEW Unrecorded
PROPERTIES
  Convergence
CHECK_DEADLOCK FALSE
