CONSTANTS
  Byte <- MCByte
  Sizes <- MCSizes
  Size = 4
  WordBytes = 2
  MaxTraces = 2
SPECIFICATION Spec
INVARIANT TypeOK
INVARIANT TracesAgree
INVARIANT VersionsCountMutableWords
PROPERTY StatusTransitions
PROPERTY ImplementsGuestMemory
