SPECIFICATION SpecBars
CONSTANTS
  Symbol = {a}
  Request = {r1}
  Lookback = {1, 3}
  MaxDay = 4
  MaxFaults = 0
CHECK_DEADLOCK FALSE
INVARIANT RangeIsAnswered
