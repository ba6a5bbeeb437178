CONSTANTS
  t0 = t0  tu = tu  b0 = b0
  Tags = {t0}
  Uncached = {}
  Lines = 1
  LineWords = 2
  Lanes = {b0}
  Values <- MCValues
  Undef = Undef
  NoRequest = NoRequest
  FetchLookup = FALSE
  DataRequests <- LiveRequests
  Fetches <- CodeFetches
  InitMemories <- Zeroed
  PipelineDepth = 2
SPECIFICATION FairSpec
PROPERTIES FetchAnswered DataAnswered FlushAcknowledged
