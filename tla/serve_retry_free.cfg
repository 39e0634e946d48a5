SPECIFICATION ServeSpec
CONSTANTS
  a1 = a1
  ka = ka
  q1 = q1
  Agents = {a1}
  Keys = {ka}
  NoAgent = NoAgent
  AgentOf <- MCAgentOf
  Reservations = {q1}
  Debits = {q1}
  FeeDenominator = 4
  FeeRates = {1}
  Amounts = {2}
  Delivered = {0, 3}
  DefaultCeiling = 9
  Ceilings = {}
  LineLimit = 0
  TopUp <- MCTopUp
  Refunders = {}
  MaxMinted = 6
  Attempts = {t1, t2}
  IdOf <- MCIdOf
  KeyOf <- MCKeyOf
  Estimate = 2
  MaxFailures = 0
CHECK_DEADLOCK FALSE
INVARIANTS AnsweredIsSettled
