CONSTANTS
  d1 = d1  u1 = u1  u2 = u2  alice = alice  t1 = t1  w1 = w1  w2 = w2
  NoTransferId = NoTransferId
  Stranger = Stranger
  Debtors = {d1}
  Recipients = {alice}
  Amounts = {1}
  AaEchoes = TRUE
  Uuids = {u1, u2}
  TransferIds = {t1}
  MaxRequests = 2
  MaxActions = 2
  AaAnswersOnce = TRUE
  Workers = {w1, w2}
SPECIFICATION SceneSpec
PROPERTIES Serializable EveryTransactionEnds
CHECK_DEADLOCK FALSE
