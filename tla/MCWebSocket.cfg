CONSTANTS
  Parts = {"a", "lead", "tail", "cut"}
  Cap = 2
  MaxFrames = 3
  MaxWire = 2
  MaxWrites = 2

SPECIFICATION FairSpec

INVARIANTS
  CloseIsLast
  HoldsWhatItNeeds

PROPERTIES
  ImplementsChannel
  CloseIsNoticed
