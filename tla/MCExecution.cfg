CONSTANTS
  k1 = k1 k2 = k2 p1 = p1 p2 = p2 h1 = h1 h2 = h2 w1 = w1 w2 = w2
  None = None
  Keys = {k1, k2}
  Plans = {p1, p2}
  Hashes = {h1, h2}
  Requests = {1, 2, 3, 4}
  Workers = {w1, w2}
  Cases = {"retries", "queue", "replaced", "processes"}
  Asks <- AllAsked
  MaxAttempts = 2
  BatchSize = 1
SPECIFICATION CaseSpec
INVARIANTS TypeOK SettledByReceipt RecordedIsReconciled DroppedOnlyAfterSustainedAbsence IdempotentAnswers
PROPERTIES OnlyRacesStray SubmissionsSettle
