SPECIFICATION Spec
CONSTANTS
  Kinds = {"YcsbA", "YcsbB", "YcsbC", "YcsbD", "YcsbE", "YcsbRmw", "Test", "Uniform", "Monotonic", "Circular", "NoOp"}
  lo = 0
  hi = 3
  Size = 4
  Input <- ThreeInputs
  start = 2
  end = 4
  step = 3
  min_rq_size = 0
  max_rq_size = 2
  Garbage = Garbage
  MaxSteps = 5
CHECK_DEADLOCK FALSE
INVARIANTS
  LatestIsRecent
PROPERTIES
  TerminatedForGood
