CONSTANTS
  d1 = d1  u1 = u1  alice = alice  t1 = t1  t2 = t2
  NoTransferId = NoTransferId
  Stranger = Stranger
  Debtors = {d1}
  Uuids = {u1}
  Recipients = {alice}
  Amounts = {1}
  TransferIds = {t1, t2}
  MaxRequests = 2
  MaxActions = 2
  AaAnswersOnce = FALSE
  AaEchoes = TRUE
SPECIFICATION BothSpec
INVARIANTS CancelledNeverCommitted AtMostOneCommit SuccessMeansIssued
PROPERTIES EventuallyFinalized NothingStaysLocked
CHECK_DEADLOCK FALSE
