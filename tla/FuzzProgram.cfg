CONSTANTS
  None = None
  WinWords = 2
  MaxInsns = 400
  Programs <- MCPrograms
SPECIFICATION Spec
INVARIANTS CaseMade SelfCheckExact InterruptTransparent
PROPERTY Reports
