SPECIFICATION FairSpec
CONSTANTS
  t1 = t1  t2 = t2  r1 = r1
  Thread = {t1, t2}
  Resource = {r1}
  Base <- OneArena
  Bytes = 14
  Request <- Mixed
  kMinSlabClass = 1
  kMaxSlabClass = 3
  WordBits = 8
CHECK_DEADLOCK FALSE
INVARIANTS
  BlocksDisjoint
  BlocksAsAsked
  NothingOverwritten
  FreeMemoryIsFree
PROPERTIES
  AllocationsReturn
