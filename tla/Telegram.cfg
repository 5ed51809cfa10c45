CONSTANTS
  o1 = o1
  o2 = o2
  btc = btc
  eth = eth
  watchdog = watchdog
  reconciler = reconciler
  operator = operator
  Orders = {o1}
  Symbols = {btc}
  SymbolOf <- OneOrder
  Callers = {watchdog, operator}
  Operators = {operator}
  Cancellable = {watchdog}
  NoCaller = NoCaller
  JournalMayFail = TRUE
SPECIFICATION TelegramSpec
INVARIANTS AnswerExplained
PROPERTIES ImplementsContract
