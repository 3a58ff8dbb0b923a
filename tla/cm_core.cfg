SPECIFICATION Spec
CONSTANTS
  n1 = n1  n2 = n2
  t1 = t1  t2 = t2  t3 = t3  t4 = t4
  Node = {n1, n2}
  Thread = {t1, t2, t3}
  NodeOf <- TwoAndOne
  Targets <- Anybody
  Id = {i1, i2, i3, i4, i5}
  kUnlocked = kUnlocked
  NoId = NoId
  Calls = {"Connect", "GetConnection", "Shutdown"}
SYMMETRY Symmetry
CHECK_DEADLOCK FALSE
INVARIANTS
  MutualExclusion
  InsertionSucceeds
  PeersAgree
  ListenerKnowsFirst
PROPERTIES
  EntriesAreStable
