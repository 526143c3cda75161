SPECIFICATION ParsingSpec
CONSTANTS
  Threads = {t1, t2, t3}
  MaxVersion = 3
  None = None NoEntry = NoEntry
INVARIANTS LatestUnitsAreKept
