SPECIFICATION Spec
CONSTANTS
  Modulus = 5
  Fuel = 20
  MaxRounds = 6
  Models <- MCModels
  Inputs <- MCInputs
  Registers <- MCRegisters
INVARIANT SameResult
INVARIANT SameCode
INVARIANT AssertionsHold
INVARIANT RepeatEnds
