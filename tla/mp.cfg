SPECIFICATION FairSpec
CONSTANTS
  n1 = n1  n2 = n2  t0 = t0  t1 = t1  t2 = t2  None = None
  Node = {n1, n2}
  Home = n1
  Peers <- Both
  Token = {t0, t1, t2}
  FirstToken <- OneEach
  HomeToken = t0
  Datum = {d1, d2}
  HomeDatum = d1
  Zero = Zero
  Hint = {Zero, t0}
  Buffer = {b1, b2}
  NumOps = 2
  MaxAbandoned = 1
  Programs <- Either
INVARIANTS
  TokensAreExchanged
  PayloadsIntact
  CompletionsMatch
PROPERTIES
  OperationsTakeEffect
  InitReturns
  OperationsReturn
CHECK_DEADLOCK FALSE
