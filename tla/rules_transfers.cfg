SPECIFICATION RulesSpec
CONSTANTS
  Questions = {q1}
  Payments = {p1}
  RuleSets <- MCRuleSets
  Sizes = {1, 2}
  LastDay = 1
  Budgets <- MCBudgets
  MaxApprovals = 1
  MaxPerDay = 3
PROPERTIES LimitBindsTransfers
CHECK_DEADLOCK FALSE
