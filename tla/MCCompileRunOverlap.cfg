SPECIFICATION Spec
CONSTANTS
  Modulus = 5
  Fuel = 20
  MaxRounds = 6
  Models <- MCOverlapModels
  Inputs <- MCInputs
  Registers <- MCRegisters
INVARIANT SameCode
