SPECIFICATION SceneSpec
INVARIANTS TypeOK CurrentConfigWins InfoIsOwn
PROPERTIES ProblemsSurface OrphansGo
CONSTANTS
  ConfigData <- MCConfigData
  EmptyData <- MCEmptyData
  Limits = {5, 9}
  Unlimited <- MCUnlimited
  Huge <- MCHuge
  ApiTimes = {1, 2}
  ConsumerTimes = {3}
  SeqnumModulus = 8
  MaxActions = 1
  MaxReservations = 1
  MaxSignals = 3
  MaxChanges = 2
CHECK_DEADLOCK FALSE
