SPECIFICATION LedgersSpec
CONSTANTS
  Runners = {r1, r2}
  Launch = 0
  Boundaries = {1}
  MaxRange = 2
  MaxHead = 2
  Kinds <- PumpKinds
  Fetchers = {f1}
  MaxDropped = 1
  eth = eth
  sol = sol
  Requests = {t1, t2, t3}
  Keys = {k1, k2, k3}
  Quotes <- Fills
  Currencies = {eth, sol}
  Start_ = 4
  MaxTries = 2
  Clients = {q1, q2}
  Users = {1, 2}
  Stock = {1, 2}
  Launches = {8, 9}
  UserKeys = {1, 2}
  TTL = 1
  MaxClock = 1
  MaxAsks = 2
  Wallets = {a1, a2}
  Challenges = {v1, v2}
  NoValue = NoValue
  o1 = o1
  c1 = c1
  c2 = c2
  Orders = {o1}
  Checkouts = {c1, c2}
  Payments = {p1, p2}
  References = {x1}
  Statuses <- Reported
  Clicks = {1, 2}
  Asks <- TwoClicks
  Pollers = {w1}
  MaxUpdates = 1
INVARIANTS HistoryIsHonest LifecycleIsHonest BooksBalance VanityIsExclusive ProofsAreUsedOnce OrdersFollowMoonPay
PROPERTIES WhatIsSettledStays
CHECK_DEADLOCK FALSE
