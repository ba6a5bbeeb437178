CONSTANTS
  Height = 4
  Words = 4
  BlockWords = 2
  BlockSpace = 2
  AddressSpace = 16
  Undef = Undef
  Capacity = 2
SPECIFICATION Spec
INVARIANTS RowShown RowWhole BlankReported FetchesOwned
