SPECIFICATION FairSpec
CONSTANTS
  d1 = d1  d2 = d2
  Driver = {d1, d2}
  NoCaller = NoCaller
  Controlled = {d1, d2}
  Fails = {"Start", "Apply", "Stream", "Stop"}
  max_qps = 1
  Second = 2
  MaxElapsed = 4
  MaxTokens = 3
CHECK_DEADLOCK FALSE
INVARIANTS
  QuietAfterStop
  StartedClientIsStopped
PROPERTIES
  OwnerReturns
