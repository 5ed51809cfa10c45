CONSTANTS
  k1 = k1
  k2 = k2
  History = 3
  Window = 1
  TimeStop = 1
  ZEntry = 2
  ZTarget = 0
  ZStop = 3
  Scores <- MCScores
  Sizes = {0, 1}
  MaxSize = 1
  Slots = {k1, k2}
  LastInterval = 5
  MaxTrades = 2
SPECIFICATION Spec
SYMMETRY Symmetry
INVARIANTS TypeOK
PROPERTIES EachBarOnce EvaluatedBarsFinal TimeStopAsksFlat
