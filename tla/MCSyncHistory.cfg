SPECIFICATION SyncHistorySpec
CONSTANTS
  Devices = {a, b}
  Items = {x, y}
  Contents = {c1, c2}
  NoContent = NoContent
  Tags = {t1}
  NoTag = NoTag
  MaxSeq = 5
  MaxPending = 2
  MaxEdits = 3
  MaxFailures = 2
  SlowCycles = TRUE
CONSTRAINT Budget
SYMMETRY Symmetry
INVARIANTS
  SyncTypeOK
  SeqsDistinct
  DeltaComplete
  CursorSound
PROPERTIES
  RowsLeaveUnderHorizon
  OpsSettled
  SingleEditsReplaceSeen
  CommittedOnce
CHECK_DEADLOCK FALSE
