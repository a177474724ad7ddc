SPECIFICATION DroppingSpec
CONSTANTS
  Workers = {w1}
  Sweep = sweep
  Txs = 4
  TxsPerSlot = 1
  Unsupported = {}
  Empty = {}
  MaxQueue = 1
  Budget = 4
  MaxFaults = 0
PROPERTY MissedIsRecovered
CHECK_DEADLOCK FALSE
