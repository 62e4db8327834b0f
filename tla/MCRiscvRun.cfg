CONSTANTS
  Pcs = 3
  Options <- MCOptions
  KipsPeriod = 2
  ShowPeriod = 2
  Iterations = 2
  StepWrap = 2
SPECIFICATION Spec
CHECK_DEADLOCK FALSE
INVARIANT TypeOK
INVARIANT ClockIsExact
INVARIANT KipsAssertion
INVARIANT EndsForAReason
PROPERTY LimitStops
PROPERTY CtrlCStopsWithoutTicks
