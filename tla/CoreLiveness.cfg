CONSTANTS
  btc = btc
  eth = eth
  o1 = o1
  o2 = o2
  Symbols = {btc}
  Oids = {o1}
  Entries <- Long
  ABudget = 1
  Deployable = 3
  Pledges = {0, 2}
  MaxSize = 1
  MaxPositions = 1
  MaxOpenOrders = 1
  Reconciles = TRUE
  CancelMayFail = TRUE
  SubmitMayRaise = TRUE
  JournalMayFail = FALSE
SPECIFICATION FairJudgedSpec
INVARIANT ReconcilerIsRight
PROPERTIES TrackedOrdersEnd OrphansAreNoticed
CHECK_DEADLOCK FALSE
