CONSTANTS
  Boards = {b1, b2}
  Quoting = {quotes}
  Daily = {history}
  LastDay = 2
  None = None
  Value = {v1, v2}
  DayLen = 2
  MaxTime = 7
  Retention = 2
  MaxClock = 6
  LastDate = 3
  PageSize = 1
  MaxPages = 3
  Absent = Absent
  NoClose = NoClose
  Symbol = {s1, s2}
  Other = Other
  Proxy = {p1, p2}
  Invalid = Invalid
  Direct = Direct
  BatchSize = 2
  MaxItems = 2
  MaxList = 3
  MaxAsked = 3
  MaxAnswer = 2
SPECIFICATION MarketSpec
SYMMETRY Symmetry
INVARIANTS
  TypesOK
  ServedIsDurable
  NoGapUnlessLate
  AskedOnBoardOfTheDay
  MovedBoardFound
  LastTradeStored
  MissingOnlyIfAnswered
  GivesUpOnlyWithoutProxy
PROPERTIES
  NoPriceGoesBack
CHECK_DEADLOCK FALSE
