CONSTANTS
  Size = 16
  General = {0, 1}
  System = {8, 9}
  Start = 0
  Programs <- MCPrograms
  Rows = 2
  NoRow = NoRow
SPECIFICATION FairSpec
INVARIANTS PredictionKept
PROPERTIES ImplementsIsa InstructionsComplete InterruptsTaken
