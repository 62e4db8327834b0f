CONSTANTS
  WordBits = 4
  Base = 16
  Sizes = {1, 2, 4, 5}
  Values <- MCValues
  Numbers <- MCNumbers
  Literals <- MCLiterals
  PassLimit = 8
  LongShifts = FALSE
SPECIFICATION Spec
INVARIANT TypeOK
INVARIANT SameMeaning
INVARIANT Settles
CHECK_DEADLOCK FALSE
