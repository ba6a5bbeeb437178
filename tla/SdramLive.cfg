CONSTANTS
  m0 = m0  b0 = b0
  LineIds = {m0}
  Words = 2
  Lanes = {b0}
  Values <- MCValues
  Undef = Undef
  ReadLimit = 2
  PendingModulus = 4
  Capacity = 1
  CpuRequests <- LiveRequests
  VideoAddrs <- VideoWords
  InitMemories <- Striped
  NoRequest = NoRequest
SPECIFICATION FairSpec
PROPERTIES HostAnswered VideoTaken
