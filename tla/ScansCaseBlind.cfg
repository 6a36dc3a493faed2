SPECIFICATION Spec
CONSTANTS
  Null = Null
  PageSize = 2
  MaxPages = 2
  MaxRows = 3
  MaxInt = 7
  Window = 2
  Now = 6
  Slack = 1
  HardCap = 3
  WarnTraces = 2
  BoolColumns = {"error"}
  Holders <- MCHolders
  Spellings <- MCSpellings
  OrderSafe = {"n"}
  Requests <- MCCaseBlind
  Contents <- MCContents
  Arrivals <- MCArrivals
INVARIANTS Complete
CHECK_DEADLOCK FALSE
