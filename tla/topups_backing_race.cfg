SPECIFICATION TopUpsSpec
CONSTANTS
  Payments = {p1}
  Anomalous = {}
  Amount = 2
  LXC = 2
  Handlers = {h1}
  Spends = {1}
  MaxTurns = 1
PROPERTIES BackingReadIsCurrent
