CONSTANTS
  Order = {o1}
  Qty = 2
  NetQty = 1
  MaxTries = 1
  MaxFills = 4
  SyncCallbacks = FALSE
  Faults = {"LateArrival"}
  NoOrder = NoOrder
  s1 = s1
  Symbol = {s1}
  SymbolOf <- OneSymbol
  Price <- OnePrice
  QtyTolerance = 2
  DollarTolerance = 1
  FeeQty = 1
  NoStatus = NoStatus
  Silence = Silence
SPECIFICATION LiveSpecRec
PROPERTIES PolledFillIsMissing DifferenceIsNoticed EndedOrderIsSettled OperatorIsTold
