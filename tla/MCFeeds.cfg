SPECIFICATION FeedsSpec
CONSTANTS
  WsEndpoints = 1
  AttemptsPerEndpoint = 1
  DedupeWindow = 1
  Sockets = {1, 2}
  MaxHead = 2
  MaxFaults = 1
  Connections = {c1}
  Channels = {k1, k2}
  MaxSubscriptions = 1
  MaxPending = 2
  MaxLosses = 2
  Workers = {w1}
  Sweep = sweep
  Txs = 4
  TxsPerSlot = 2
  Unsupported = {4}
  Empty = {2}
  MaxQueue = 1
  Budget = 2
  PumpFaults = 2
INVARIANTS NothingIsLost SubscribersAreServed
PROPERTIES BlocksArrive RealtimeRecovers PumpIsRecovered
CHECK_DEADLOCK FALSE
