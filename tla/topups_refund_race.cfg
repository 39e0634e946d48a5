SPECIFICATION TopUpsSpec
CONSTANTS
  Payments = {p1}
  Anomalous = {}
  Amount = 2
  LXC = 2
  Handlers = {h1, h2}
  Spends = {}
  MaxTurns = 0
INVARIANTS FullyRefundedIsMarked
