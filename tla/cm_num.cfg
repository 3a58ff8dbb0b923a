SPECIFICATION Spec
CONSTANTS
  n1 = n1  n2 = n2
  t1 = t1  t2 = t2  t3 = t3  t4 = t4
  Node = {n1, n2}
  Thread = {t1, t2, t3, t4}
  NodeOf <- TwoEach
  Targets <- Anybody
  Id = {i1, i2, i3}
  kUnlocked = kUnlocked
  NoId = NoId
  Calls = {"Connect", "GetNumConnections"}
SYMMETRY Symmetry
INVARIANTS
  InsertionSucceeds
