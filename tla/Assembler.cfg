CONSTANTS
  None = None
  A = A  B = B
  Sources <- MCSources
  DefineSets <- MCDefines
SPECIFICATION Spec
INVARIANTS ConditionsNest  ImageExecutes
