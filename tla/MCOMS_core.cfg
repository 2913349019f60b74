CONSTANTS
  Order = {o1, o2}
  Qty = 2
  NetQty = 1
  MaxTries = 1
  MaxFills = 4
  SyncCallbacks = TRUE
  Faults = {}
  NoOrder = NoOrder
SPECIFICATION Spec
SYMMETRY Symmetry
INVARIANTS NeverOverfilled PositionIsSound CrashLosesNothing
PROPERTIES EndIsFinal ReconciledOrderAgrees LedgerSpec
