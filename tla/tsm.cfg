SPECIFICATION FairSpec
CONSTANTS
  a = a  b = b  c = c
  Message = {a, b, c}
  Size <- Sizes
  None = None
  kCapacity = 14
  kRecvMaxBytes = 3
  RnrRetry = 1
  TotalMod = 4
  MayDisconnect = TRUE
INVARIANTS
  PiecesAreExclusive
PROPERTIES
  ImplementsChannel
  SendReturns
  EverythingIsDelivered
  ReceiverRecovers
