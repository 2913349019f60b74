SPECIFICATION Spec
CONSTANTS
  haiku = haiku
  opus = opus
  sonnet = sonnet
  manager = manager
  spy = spy
  tqqq = tqqq
  j1 = j1
  j2 = j2
  j3 = j3
  Sleeve = {haiku, sonnet, opus}
  Cheap = haiku
  Builder = opus
  Manager = manager
  Symbol = {spy, tqqq}
  Spy = spy
  Letf = {tqqq}
  Thread = {j1, j2, j3}
  SleeveOf <- MCSleeveOf
  Weight = {0, 1, 2}
  TargetHoldings = 1
  Starter = 1
  OptionCap = 1
  NameCap = 1
  BaseGross = 2
  ReviewFrom = 2
  Band = 1
  Reserve = 2
  Equity = 2
  Bucket = {0, 2, 4}
  BuyingPower = {1, 3}
  MaxOrders = 2
CHECK_DEADLOCK FALSE
INVARIANTS SleeveIsSound AccountIsSound TripStopsEntries OutcomeMatchesOrder
