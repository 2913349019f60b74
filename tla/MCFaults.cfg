SPECIFICATION MCSpec
CONSTANTS
  Order = {o1}
  Qty = 3
  NetQty = 2
  MaxTries = 2
  MaxFills = 4
  SyncCallbacks = TRUE
  Faults = {"LateArrival", "FindReturnsNone", "RecoverTwice"}
  NoOrder = NoOrder
  a = a
  b = b
  Symbol = {a, b}
  Request = {r1, r2}
  Lookback = {1, 3}
  MaxDay = 4
  MaxFaults = 1
SYMMETRY Symmetry
INVARIANTS IInv OnlyEarlyDaysLack
PROPERTIES StoredIsFinal
