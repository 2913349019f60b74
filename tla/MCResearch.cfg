SPECIFICATION SpecResearch
CONSTANTS
  Item = {1, 2}
  Symbol = {1, 2}
  SymOf <- MCSymOf
  Limit = 1
  MaxDay = 5
  MaxMishaps = 1
INVARIANTS
  HighImpactIsAnnounced
  ExtraDivesAreRare
  RotationIsFair
PROPERTY EveryItemIsTried
CHECK_DEADLOCK FALSE
