CONSTANTS
  btc = btc
  NoCoin = NoCoin
  Chunk = 3
  Span = 4
  EndIncluded = TRUE
  LastTime = 7
  Coins = {btc}
  TimeStop = 1
  ZEntry = 2
  ZTarget = 0
  ZStop = 3
  Scores <- MCScores
  Unit = 8
  Legs = 2
  Rates = {1, 8}
  Threshold = 1
  CaptureCost = 2
  FailureCosts = {4, 24}
  InitialEquity = 1048576
SPECIFICATION Spec
INVARIANTS HistoryExplained WalkAccounted LongTradesHaveGaps LeavesAsLive AttemptsAddUp
CHECK_DEADLOCK FALSE
