SPECIFICATION Spec
CONSTANTS
  t1 = t1  t2 = t2  r1 = r1
  Thread = {t1}
  Resource = {r1}
  Base <- OneArena
  Bytes = 16
  Request <- Odd
  kMinSlabClass = 1
  kMaxSlabClass = 3
  WordBits = 8
INVARIANTS
  BlocksDisjoint
