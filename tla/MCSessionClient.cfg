SPECIFICATION ClientSpec
CONSTANTS
  Requests = {q, r}
  AccessTTL = 1
  RefreshTTL = 2
  AbsoluteTTL = 2
  MaxTokens = 3
  MaxTime = 2
  Devices = {a}
  NoRequest = NoRequest
  Strangers = 1
  MaxFailures = 1
SYMMETRY Symmetry
INVARIANTS
  ClientTypeOK
  LifetimeCapped
  RenewedRetired
  RevocationSticks

  
CHECK_DEADLOCK FALSE
