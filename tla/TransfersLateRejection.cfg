CONSTANTS
  d1 = d1  d2 = d2  u1 = u1  u2 = u2  alice = alice  bob = bob  t1 = t1  t2 = t2
  NoTransferId = NoTransferId
  Stranger = Stranger
  Debtors = {d1}
  Uuids = {u1}
  Recipients = {alice}
  Amounts = {1}
  TransferIds = {t1, t2}
  MaxRequests = 2
  MaxActions = 1
  AaAnswersOnce = FALSE
  AaEchoes = TRUE
SPECIFICATION Spec
SYMMETRY Symmetry
INVARIANT UnsuccessfulIssuedZero
CHECK_DEADLOCK FALSE
