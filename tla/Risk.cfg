CONSTANTS
  btc = btc
  eth = eth
  sol = sol
  k1 = k1
  k2 = k2
  Symbols = {btc, eth, sol}
  Slots = {k1, k2}
  Targets <- AskedFor
  Prices = {1, 2}
  StartEquity = 3
  Equities <- Dollars
  Sizes <- Positions
  Window = 1
  RiskBp = 30
  NotionalPct = 70
  MaxLeverage = 1
  MaxPositions = 1
  MaxOpenOrders = 2
  MaxPerMinute = 2
SPECIFICATION Spec
SYMMETRY Symmetry
INVARIANTS ExposureWithinCaps AcceptedWithinRate CloseIsNeverTooBig
