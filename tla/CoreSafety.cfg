CONSTANTS
  btc = btc
  eth = eth
  o1 = o1
  o2 = o2
  Symbols = {btc}
  Oids = {o1, o2}
  Entries <- Long
  ABudget = 1
  Deployable = 3
  Pledges = {0, 4}
  MaxSize = 1
  MaxPositions = 2
  MaxOpenOrders = 1
  Reconciles = TRUE
  CancelMayFail = TRUE
  SubmitMayRaise = TRUE
  JournalMayFail = TRUE
SPECIFICATION Spec
SYMMETRY Symmetry
INVARIANTS OpenOrdersWithinCap TrackedOrOrphan
CHECK_DEADLOCK FALSE
