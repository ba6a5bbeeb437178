CONSTANTS
  t0 = t0  tu = tu  b0 = b0
  Tags = {t0, tu}
  Uncached = {tu}
  Lines = 1
  LineWords = 2
  Lanes = {b0}
  Values <- MCValues
  Undef = Undef
  NoRequest = NoRequest
  FetchLookup = TRUE
  DataRequests <- CodeRequests
  Fetches <- CodeFetches
  InitMemories <- Zeroed
  PipelineDepth = 2
SPECIFICATION Spec
INVARIANTS FetchesFresh PortKept
PROPERTIES ImplementsDataPort
