SPECIFICATION Spec
CONSTANTS
  a1 = a1
  a2 = a2
  ka = ka
  kb = kb
  kw = kw
  Agents = {a1, a2}
  Keys = {ka, kb, kw}
  NoAgent = NoAgent
  AgentOf <- MCAgentOf
  Reservations = {r1}
  Debits = {d1}
  FeeDenominator = 4
  FeeRates = {1}
  Amounts = {2}
  Delivered = {1, 3}
  DefaultCeiling = 5
  Ceilings = {}
  LineLimit = 3
  TopUp <- MCTopUp
  Refunders = {}
  MaxMinted = 6
CHECK_DEADLOCK FALSE
INVARIANTS LedgerReconciles BudgetReconciles
PROPERTIES KeyWithinCeiling IsAPurse
