SPECIFICATION FairSpec
CONSTANTS
  c1 = c1  c2 = c2  c3 = c3  c4 = c4
  Coro = {c1, c2, c3, c4}
  Null = Null
  Resumes <- Various
CHECK_DEADLOCK FALSE
INVARIANTS
  OneCircle
PROPERTIES
  NobodyOvertakes
  RunReturns
