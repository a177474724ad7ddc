SPECIFICATION RecoverySpec
CONSTANTS
  MinInterval = 1
  Delays = {0, 2}
  WsEndpoints = 2
  Good = {1}
  Silence = 2
  MaxDelay = 2
  Widest = 3
  Answers <- Answering
  Cooldown <- Cooling
  Timeout = 2
  Deadline = 5
  Escalations = 3
  Retries = 1
  MaxGap = 1
  discovery = discovery
  trades = trades
  launch = launch
  swap = swap
  Sources = {discovery, trades}
  Gate <- Barriers
  Refreshing = {discovery}
  Items = {launch, swap}
  SourceOf <- Stores
  MaxHeight = 3
  MaxForks = 2
  MaxRange = 1
  MaxDepth = 1
INVARIANTS RowsFollowTheChain
PROPERTIES RecoveryConverges
CHECK_DEADLOCK FALSE
