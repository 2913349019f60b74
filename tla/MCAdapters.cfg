SPECIFICATION Spec
CONSTANTS
  Order = {"o1", "o2"}
  SideOf <- MCSideOf
  Size = 2
  Lot = 4
  Fee = 1
  Crypto = TRUE
  Caller = {"c1", "c2"}
  Price = {"p1", "p2"}
  DryId = {"d1", "d2", "d3"}
  MaxRestarts = 1
CHECK_DEADLOCK FALSE
INVARIANTS SubmitIsIdempotent
PROPERTIES AnswersAreTrue
