SPECIFICATION MovesSpec
CONSTANTS
  m1 = m1
  m2 = m2
  w1 = w1
  w2 = w2
  o1 = o1
  Members = {m1, m2}
  Workspaces = {w1, w2}
  Worlds <- MCWorlds
  Transfers = {1}
  Escrows = {e1}
  Requests = {q1}
  Askers = {m1}
  MoveAmounts = {1}
  MaxCredited = 1
CHECK_DEADLOCK FALSE
PROPERTIES FreezeHolds
