CONSTANTS
  t0 = t0  t1 = t1  tl = tl  b0 = b0
  Tags = {t0, t1, tl}
  Uncached = {}
  Local = {tl}
  Lines = 2
  LineWords = 2
  Lanes = {b0}
  Values <- MCValues
  Undef = Undef
  RegisterLookup = TRUE
  ReadOnly = TRUE
  CpuRequests <- Fetches
  ExtWrites <- MasterWrites
  InitMemories <- StripedMemories
  NoRequest = NoRequest
SPECIFICATION Spec
INVARIANTS TypeOK BusAccount HeldStable LinesCoherent
PROPERTY ImplementsPort
