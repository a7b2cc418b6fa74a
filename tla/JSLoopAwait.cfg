SPECIFICATION LiveSpec
CONSTANTS
  MaxIds = 2
  MaxLater = 2
  MaxVMs = 2
  MaxSync = 0
  MaxRequests = 1
  TimerQueue = 1
  ReadQueue = 1
  Prompt = FALSE
PROPERTY EveryPageEnds
CHECK_DEADLOCK FALSE
