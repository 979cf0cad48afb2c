SPECIFICATION FairSpec
CONSTANTS
  Callers = {c, d}
  Backups = {x, y}
  Owner = o
  NoAddress = NoAddress
  MaxTokens = 2
  VerifyTTL = 2
  BackupTTL = 1
  Cooldown = 1
  MaxFailures = 1
INVARIANTS
  TypeOK
  BackupConfirmed
PROPERTIES
  EventuallyVerified
