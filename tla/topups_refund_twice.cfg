SPECIFICATION TopUpsSpec
CONSTANTS
  Payments = {p1, p2}
  Anomalous = {}
  Amount = 2
  LXC = 2
  Handlers = {h1}
  Spends = {}
  MaxTurns = 0
INVARIANTS RefundWithinPurchase
