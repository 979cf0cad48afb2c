SPECIFICATION GuardedSpec
CONSTANTS
  Devices = {a, b}
  Items = {x}
  Contents = {c1, c2}
  NoContent = NoContent
  Tags = {k1, k2}
  NoTag = NoTag
  FirstKey = k1
  NoAlarm = NoAlarm
  Disasters = {"restored", "recovered", "wiped"}
  MaxSeq = 3
  MaxPending = 2
  MaxEdits = 2
  MaxFailures = 1
  SlowCycles = FALSE
SYMMETRY Symmetry
INVARIANTS
  GuardedTypeOK
  TrustedWhilePublished
  GuardedCursorSound
PROPERTIES
  CursorAdvances
CHECK_DEADLOCK FALSE
