CONSTANTS
  btc = btc
  eth = eth
  o1 = o1
  o2 = o2
  Symbols = {btc, eth}
  Oids = {o1, o2}
  Entries <- Long
  ABudget = 1
  Deployable = 3
  Pledges = {0}
  MaxSize = 1
  MaxPositions = 1
  MaxOpenOrders = 2
  Reconciles = FALSE
  CancelMayFail = FALSE
  SubmitMayRaise = FALSE
  JournalMayFail = FALSE
SPECIFICATION Spec
SYMMETRY Symmetry

INVARIANTS AtMostOneSurvivor OneRequestWhileHalted
PROPERTY ImplementsContract
CHECK_DEADLOCK FALSE
