SPECIFICATION ServicesSpec
CONSTANTS
  Orders = {o1}
  Checkouts = {c1}
  Payments = {p1}
  References = {x1, x2}
  Statuses <- Reported
  Requests = {r1}
  Asks <- OneOrder
  Pollers = {w1}
  MaxUpdates = 2
  None = None
  Workers = {f1, f2}
  Prompt = {f1}
  MaxAttempts = 2
  MaxTries = 2
  Sweep = sweep
INVARIANTS ForensicsIsOrderly
PROPERTIES MissedEventsAreRecovered ForensicsFinishes WhatIsSettledStays
CHECK_DEADLOCK FALSE
