CONSTANTS
  Banks = {0, 1}
  Rows = {0, 1}
  Columns = {0}
  Values <- MCValues
  Undef = Undef
  Half = 1
  CAS = 2
  TRCD = 2
  TRP = 2
  TRFC = 3
  TRAS = 5
  TWR = 2
  PowerUp = 2
  MaxAge = 7
  MaxRefreshAge = 40
  Depth = 2
  RingSize = 8
  RefreshCycles = 13
  Requests <- MCRequests
  InitMemories <- Zeroed
  Nothing = Nothing
  Capacity = 10
  PatternLength = 3
SPECIFICATION MCFairSpec
INVARIANTS DeviceRespected ControllerKept
PROPERTIES ImplementsPort AllAnswered
