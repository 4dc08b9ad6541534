CONSTANTS
  Members = {1, 2, 3, 4}
  Keys = {1, 2, 3, 4}
  k1 = k1
  k2 = k2
  Coordinators = {k1, k2}
  Values = {k1, k2}
  Requests = {r1, r2}
  Conns = {c1, c2}
  Kinds = {"visit", "assign"}
  MaxFaults = 0
  MaxMoves = 0
  Asked = {3}
  Askers = {k2}
  Returning = {4}
  MaxArrivals = 2
  Given <- MCGiven
  NoOne = NoOne
  NoRow = NoOne
  NoConn = NoConn
  NoMember = NoMember
SPECIFICATION Spec
PROPERTIES
  ShiftTakesOnlyFree
CHECK_DEADLOCK FALSE
