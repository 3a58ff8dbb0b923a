SPECIFICATION Spec
CONSTANTS
  Null = Null
  Value = {1, 2, 3, 4}
  window_size = 4
  MaxSamples = 6
CHECK_DEADLOCK FALSE
INVARIANTS
  TreeHoldsWindow
  RanksAreExact
  PercentilesAreOrdered
  ExtremesAreKept
  EveryNodeDeleted
