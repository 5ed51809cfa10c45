CONSTANTS
  o1 = o1
  o2 = o2
  btc = btc
  eth = eth
  watchdog = watchdog
  reconciler = reconciler
  operator = operator
  Orders = {o1, o2}
  Symbols = {btc, eth}
  SymbolOf <- TwoCoins
  Callers = {watchdog, reconciler}
  Operators = {}
  Cancellable = {}
  NoCaller = NoCaller
  JournalMayFail = FALSE
SPECIFICATION FairTelegramSpec
INVARIANTS ReportExplainsRest OneSequence JournalTellsFlag
PROPERTIES ImplementsContract HaltSettles
