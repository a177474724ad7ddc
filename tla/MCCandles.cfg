SPECIFICATION FairSpec
CONSTANTS
  Trades = {1, 2}
  Streams = {"swaps"}
  StreamOf <- OneStream
  MaxHeight = 3
  MaxRange = 2
  BlocksPerTick = 1
  Widths = {1, 2}
  Cap = 1
  MaxFaults = 2
INVARIANTS TypeOK CandlesMatchUnlessSkipped
PROPERTIES CandlesConverge

