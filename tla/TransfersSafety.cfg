CONSTANTS
  d1 = d1  d2 = d2  u1 = u1  u2 = u2  alice = alice  bob = bob  t1 = t1  t2 = t2
  NoTransferId = NoTransferId
  Stranger = Stranger
  Debtors = {d1}
  Uuids = {u1, u2}
  Recipients = {alice}
  Amounts = {0, 1}
  TransferIds = {t1, t2}
  MaxRequests = 3
  MaxActions = 2
  AaAnswersOnce = TRUE
  AaEchoes = TRUE
SPECIFICATION Spec
SYMMETRY Symmetry
INVARIANTS TypeOK CountMatches FailureMeansNothingIssued
PROPERTIES KeepsPromise ResultsAreFinal
CHECK_DEADLOCK FALSE
