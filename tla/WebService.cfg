CONSTANTS
  x = x  y = y
  ActionsPeriod = 1
  DocumentsPeriod = 2
  MaxActions = 1
  MaxSaves = 2
  Contents = {x, y}
  MaxDay = 6
  DebtorIds = {0, 1, 2, 3, 4}
  ValidIds = {0, 2, 3, 4}
  MinId <- MinusOne
  NoId = NoId
  PageSize = 1
  MaxChanges = 3
SPECIFICATION BothSpec
SYMMETRY Symmetry
INVARIANTS AtMostTwicePerPeriod RefusedForCause EachOnceInOrder NoneIsMissing
CHECK_DEADLOCK FALSE
