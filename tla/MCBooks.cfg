SPECIFICATION MCSpec
CONSTANTS
  MaxFills = 4
  MaxQty = 2
  Price = {1, 2}
  Deal <- MCDeal
  o1 = o1
  Order = {o1}
  Judged = {o1}
  Days = 2
  Dust = 2
  MaxMishaps = 2
  PastLogs <- MCPastLogs
  m1 = m1
  FillThread = FillThread
  MarkThread = {m1}
  NoThread = NoThread
  Equity = {80, 92, 100}
  StartingEquity = 100
  Trigger = 2
  RecoveryDays = 2
  Day = 1
  MaxTicks = 2
  MaxPos = 1
  MaxLosses = 3
INVARIANTS
  LotsAddUp DiskFollowsMemory ClosedLotIsScored ProfitIsExact
  BucketCoversDrawdown DiskIsCurrent
PROPERTIES OldestFirst LoosensSlowly
