SPECIFICATION LateSpec
CONSTANTS
  t1 = t1
  Tokens = {t1}
  Launch <- Launches
  Graduation <- Graduations
  CurveTrades <- OnCurves
  PoolTrades <- InPools
  MaxHeight = 3
  Lag = 0
  Lookback = 4
  MaxRange = 2
  CurveRange = 3
  MinRange = 1
  CeilingSuccesses = 1
  Accepted = 2
  Day = 4
PROPERTY StoredTradesReachCandles
