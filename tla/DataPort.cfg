CONSTANTS
  t0 = t0  t1 = t1  tl = tl  tu = tu  b0 = b0  b1 = b1
  LineWords = 2
  Values <- MCValues
  Undef = Undef
  NoRequest = NoRequest
SPECIFICATION Spec
INVARIANT DataKept
PROPERTY ImplementsPort
