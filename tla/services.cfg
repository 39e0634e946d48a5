SPECIFICATION ServicesSpec
CONSTANTS
  Payments = {p1}
  Anomalous = {}
  Amount = 2
  LXC = 2
  Handlers = {h1, h2}
  Spends = {2}
  MaxTurns = 1
  PayKeys = {"k1"}
  Calls = {c1, c2, c3}
  Sends <- MCSends
  Fee <- MCFee
  Opening = 4
  Nodes = {"n1", "n2"}
  Receipts = {r1}
  ServedBy <- MCServedBy
  Challengers = {x1, x2}
  NoReceipt = NoReceipt
  StakeAmounts = {2}
  LensOpening = 4
  UnbondPeriod = 1
  LastDay = 1
  SlashNum = 1
  SlashDen = 2
  Mints = {"m1", "m2"}
  Requester <- MCRequester
  MintAmount = 2
  CapPerPair = 2
  HoldWindow = 1
  LastHour = 3
  BondedCredits = {1, 2}
  Sweepers = {w1, w2}
  Servers = {s1, s2, s3}
  Nobody = Nobody
  MaxTroubles = 4
  Fleet = {f1}
  Routers = {i1}
  Reconcilers = {g1, g2}
  StaleThreshold = 2
  Static = {e1}
  NoSnapshot = NoSnapshot
  MaxReturns = 1
  LockAgents = {1, 2}
  WorkspaceOf <- MCWorkspaceOf
  Clients = {t1, t2}
  NoneYet = NoneYet
CHECK_DEADLOCK FALSE
INVARIANTS CreditedAtMostOnce MoneyIsWherePaymentsSay RecordAgreesWithPartner CollateralReconciles SlashedOncePerReceipt MintsSettleOnce NobodyWaitsInACircle
PROPERTIES StripeEventsRecorded JobKeepsALeader SilentNodesLeave
