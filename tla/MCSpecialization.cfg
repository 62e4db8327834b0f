CONSTANTS
  Number = Number
  Unknown = Unknown
  Param = Param
  MaxVariants = 64
  MaxSweeps = 5
  MaxSmall = 4
  ProgramSet <- TranslatedPrograms
SPECIFICATION Spec
CHECK_DEADLOCK FALSE
INVARIANT QueueConsistent
INVARIANT NamesConsistent
INVARIANT InlinedTypesAgree
INVARIANT CallsResolved
INVARIANT FixpointReached
PROPERTY Terminates
