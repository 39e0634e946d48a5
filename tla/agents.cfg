SPECIFICATION AgentsSpec
CONSTANTS
  m1 = m1
  m2 = m2
  w1 = w1
  w2 = w2
  o1 = o1
  o2 = o2
  Members = {m1, m2}
  Workspaces = {w1, w2}
  Worlds <- MCWorlds
  Transfers = {1, 2, 3}
  Escrows = {e1}
  Requests = {r1}
  Askers = {m1}
  MoveAmounts = {1, 2}
  MaxCredited = 2
  Questions = {q1}
  Payments = {p1}
  RuleSets <- MCRuleSets
  Sizes = {1, 2}
  LastDay = 1
  Budgets <- MCBudgets
  MaxApprovals = 2
  MaxPerDay = 2
  Movers = {v1, v2, v3}
  MoveKeys = {k1}
  NoMover = NoMover
  LastTime = 2
  PotOpening = 2
  Changers = {h1, h2}
  Issuers = {i1, i2}
  NoOne = NoOne
  Limits = {1, 2}
  CardRequests = {"a1", "a2"}
  Asks <- MCAsks
  CardEvents <- MCCardEvents
  RateNum = 4
  RateDen = 3
  AgentHolds = 8
  Elsewhere = 1
  CardTestFunded = 9
  CashIds = {1, 2}
  TickServers = {s1, s2}
  NoServer = NoServer
  CashAmount = 2
  CashOpening = 4
  Schedules = {1, 2}
  Outside = {2}
  EndAt = 2
  LastMinute = 2
  Runners = {t1, t2}
  NoRunner = NoRunner
  Archiver = Archiver
  MaxLosses = 1
  MaxWishes = 1
CHECK_DEADLOCK FALSE
INVARIANTS MembersCovered SidesConserved PaidOnce LetThroughOnce PotKeepsItsPromises InForceIsTrue CardBookBalances TestMoneyKept CashOutsReconcile RunsSayWhatWasPaid
PROPERTIES TestMoneyTravels EscrowLeavesHeld LimitBindsSpending CashOutsDecided TicksRun
