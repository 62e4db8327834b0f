CONSTANTS
  WordBits = 2
  Base = 4
  MaxSize = 6
  MaxDigits = 2
  MaxShift = 6
  MinIntProducts = FALSE
SPECIFICATION Spec
INVARIANT TypeOK
INVARIANT Exact
INVARIANT EqualityExact
INVARIANT OrderExact
INVARIANT ConversionsExact
