SPECIFICATION Spec
CONSTANTS
  Devices = {a, b}
  MaxRequests = 2
  HasBackup = TRUE
  Cooloff = 1
  Window = 1
  MaxBuilds = 3
  MaxTime = 2
CONSTRAINTS
  OneRace
  InTime
VIEW StillMatters
SYMMETRY Symmetry
INVARIANTS
  TypeOK
  PasswordOpensVault
  ItemsReadable
  SessionsCurrent
  KitOpensVault
  OneRequestPending
PROPERTIES
  RecoveryKeepsPromise
CHECK_DEADLOCK FALSE
