SPECIFICATION AllSpec
CONSTANTS
  t1 = t1
  t2 = t2
  t3 = t3
  Tokens = {t1, t2, t3}
  LaunchHeight <- Launches
  TradeHeights <- Trading
  MaxHeight = 6
  Lag = 1
  Lookback = 5
  MaxRange = 2
  RetryBatch = 1
  v1 = v1
  v2 = v2
  V2Tokens = {v1, v2}
  V2Height = 4
  V2Lag = 0
  V2Lookback = 4
  V2Launch <- V2Launches
  Graduation <- Graduations
  CurveTrades <- OnCurves
  PoolTrades <- InPools
  CurveRange = 3
  MinRange = 1
  CeilingSuccesses = 2
  Accepted = 2
INVARIANTS TypeOK BarrierHeld NoLaunchMissed MissedOnlyBehindATick V2IsWhole
PROPERTIES ListenersCatchUp
CHECK_DEADLOCK FALSE
