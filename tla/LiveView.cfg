CONSTANTS
  c1 = c1
  btc = btc
  eth = eth
  Clients = {c1}
  Coins = {btc, eth}
  Tick = Tick
  Topics = {btc, eth, Tick}
  QueueSize = 2
  SlowThreshold = 2
  Window = 1
  MaxPublished = 4
SPECIFICATION LiveSpec
INVARIANTS NothingLostUncounted NoSubscriptionLeft ClientKnowsNewest
PROPERTIES SlowReadersGo
CHECK_DEADLOCK FALSE
