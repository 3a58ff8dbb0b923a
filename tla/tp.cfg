SPECIFICATION FairSpec
CONSTANTS
  w1 = w1  w2 = w2  a = a  b = b  c = c
  Worker = {w1, w2}
  Task = {a, b, c}
  NoTask = NoTask
CHECK_DEADLOCK FALSE
INVARIANTS
  EveryTaskOnce
PROPERTIES
  TasksRun
  DestructorReturns
