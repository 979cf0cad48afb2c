SPECIFICATION Spec
CONSTANTS
  Callers = {c, d}
  Ips = {p}
  Devices = {n}
  Threshold = 2
  LockBase = 1
  LockCap = 3
  Budget = 2
  Window = 2
  MaxLag = 1
  MaxStreak = 4
  MaxSessions = 2
SYMMETRY Symmetry
INVARIANTS
  TypeOK
  FailuresCounted
  NewDeviceAlerted
