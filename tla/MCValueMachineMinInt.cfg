CONSTANTS
  WordBits = 2
  Base = 4
  MaxSize = 3
  MaxDigits = 2
  MaxShift = 3
  MinIntProducts = TRUE
SPECIFICATION Spec
INVARIANT Exact
