CONSTANTS
  a = a  b = b  v0 = v0  v1 = v1  x = x  y = y  z = z  u1 = u1  u2 = u2 u3 = u3  p = p  q = q
  Devices = {a, b}
  Configs = {v0, v1}
  Initial = v0
  MaxUpdates = 3
  Clients = {x, y, z}
  Uuids = {u1, u2, u3}
  Payments = {p, q}
  MaxActions = 2
  WaitsToDelete = TRUE
SPECIFICATION BothSpec
SYMMETRY Symmetry
INVARIANTS NoLostUpdate ConfirmedWasInForce PaidOnce
PROPERTIES AnswerIsTrue
CHECK_DEADLOCK FALSE
