SPECIFICATION Spec
CONSTANTS
  a1 = a1
  a2 = a2
  ka = ka
  kb = kb
  kw = kw
  Agents = {a1}
  Keys = {ka, kw}
  NoAgent = NoAgent
  AgentOf <- MCAgentOf
  Reservations = {r1, r2}
  Debits = {}
  FeeDenominator = 4
  FeeRates = {1}
  Amounts = {1, 3}
  Delivered = {0, 2, 5}
  DefaultCeiling = 5
  Ceilings = {2}
  LineLimit = 0
  TopUp <- MCTopUp
  Refunders = {h1}
  MaxMinted = 5
SYMMETRY ReservationSymmetry
CHECK_DEADLOCK FALSE
INVARIANTS AgentsCovered HoldsNetOut RoyaltiesFundedByPurchases SettledWithinHold TypeOK
PROPERTIES ResolvedIsFinal
