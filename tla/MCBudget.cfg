CONSTANTS
  Thread = {t1, t2}
  t1 = t1
  t2 = t2
  Limit = 2
  MaxCost = 2
  Days = 3
  MaxTorn = 1
  BucketLen = 2
  DayLen = 2
  FullDays = 1
  KeptDays = 2
  MaxTime = 6
  MaxFaults = 1
  MaxTrades = 1
  MaxEnds = 1
SPECIFICATION MCSpec
INVARIANTS SpendIsBounded CapSurvivesRestart HistoryIsKept
PROPERTIES ExhaustionTrips BrokerCannotStopTicks
CHECK_DEADLOCK FALSE
