SPECIFICATION FairSpec
CONSTANTS
  n1 = n1  n2 = n2
  t1 = t1  t2 = t2  t3 = t3  t4 = t4
  Node = {n1, n2}
  Thread = {t1, t2, t3}
  NodeOf <- TwoAndOne
  Targets <- Crossing
  Id = {i1, i2}
  kUnlocked = kUnlocked
  NoId = NoId
  Calls = {"Connect", "GetNumConnections", "LocalFailure", "CmTimeout", "Destroy"}
CHECK_DEADLOCK FALSE
INVARIANTS
  EntriesMatchPeer
PROPERTIES
  CallsReturn
  DestructorFinishes
