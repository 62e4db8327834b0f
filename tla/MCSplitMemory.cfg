CONSTANTS
  Byte <- MCByte
  Sizes <- MCSizes
  AddressBits = 4
  WordBytes = 2
  Size1 = 2
  Size2 = 2
  Base1 = 2
  Base2 = 4
SPECIFICATION Spec
INVARIANT AccessesStayInside
PROPERTY ImplementsGuestMemory
