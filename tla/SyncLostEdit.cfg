SPECIFICATION SyncSpec
CONSTANTS
  Devices = {a, b}
  Items = {x, y}
  Contents = {c1, c2}
  NoContent = NoContent
  Tags = {t1}
  NoTag = NoTag
  MaxSeq = 5
  MaxPending = 2
  MaxEdits = 3
  MaxFailures = 1
  SlowCycles = FALSE
SYMMETRY Symmetry
INVARIANT
  EditsAccounted
CHECK_DEADLOCK FALSE
