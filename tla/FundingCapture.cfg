CONSTANTS
  btc = btc
  Strategies <- BothStrategies
  MaxPct <- DefaultPct
  BufferPct = 25
  Coins = {btc}
  Hour = 30
  PreTick = 20
  Slack = 2
  FillWindow = 3
  PostMin = 2
  LegPct = 30
  Equity = 1
  Draws = {0, 25, 60}
SPECIFICATION FairSpec
INVARIANTS BufferKept HalfPairBounded ExitsOnTime
PROPERTIES EntersForNextTick PledgesEnd
