SPECIFICATION Spec
CONSTANTS
  Sleeve = {"haiku"}
  Macro <- MCMacro
  Amount = {0, 1, 2}
  Period = 2
  MaxWeek = 3
  MaxRestarts = 1
INVARIANTS
  WeightsAreSane
  RegimeIsCurrent
PROPERTIES
  ReallocationsAreSpaced
  OverdueIsCaughtUp
CHECK_DEADLOCK FALSE
