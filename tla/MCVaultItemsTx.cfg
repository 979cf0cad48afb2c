SPECIFICATION FairTxSpec
CONSTANTS
  Items = {x}
  Contents = {c1}
  NoContent = NoContent
  Tags = {t1}
  NoTag = NoTag
  MaxSeq = 2
  Requests = {q, r}
  NoRequest = NoRequest
  PoolSize = 2
VIEW Unanswered
INVARIANTS
  ViewsFresh
  ListingComplete
PROPERTIES
  Spec
  Answered
CHECK_DEADLOCK FALSE
