CONSTANTS
  Stale = 5
  FirstDelay = 1
  MaxBackoff = 5
  OpenTimeout = 2
  MaxQuiet = 8
SPECIFICATION FairStreamSpec
INVARIANT StreamTypeOK
PROPERTIES NoFalseAlarm SilenceIsReported TriesAgain
CHECK_DEADLOCK FALSE
