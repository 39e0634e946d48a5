SPECIFICATION StakeSpec
CONSTANTS
  Nodes = {"n1"}
  Receipts = {r1}
  ServedBy <- MCServedBy
  Challengers = {x1}
  NoReceipt = NoReceipt
  StakeAmounts = {2}
  LensOpening = 4
  UnbondPeriod = 1
  LastDay = 1
  SlashNum = 1
  SlashDen = 2
CHECK_DEADLOCK FALSE
INVARIANTS LockedIsOnRecord
