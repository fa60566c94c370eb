SPECIFICATION SceneSpec
INVARIANTS
  RejectionIsCurrent
CONSTANTS
  ConfigData <- MCConfigData
  EmptyData <- MCEmptyData
  Limits = {9}
  Unlimited <- MCUnlimited
  Huge <- MCHuge
  ApiTimes = {1}
  ConsumerTimes = {2}
  SeqnumModulus = 8
  MaxActions = 1
  MaxReservations = 1
  MaxSignals = 2
  MaxChanges = 1
CHECK_DEADLOCK FALSE
