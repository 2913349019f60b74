CONSTANTS
  m1 = m1
  FillThread = FillThread
  MarkThread = {m1}
  NoThread = NoThread
  Escalated = {2, 3, 4}
  Equity = {80, 92, 100}
  StartingEquity = 100
  Trigger = 5
  RecoveryDays = 5
  Day = 1
  MaxTicks = 1
  MaxPos = 1
  MaxLosses = 1
SPECIFICATION LadderSpec
PROPERTY TighteningSettles
CHECK_DEADLOCK FALSE
