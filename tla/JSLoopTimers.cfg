SPECIFICATION Spec
CONSTANTS
  MaxIds = 2
  MaxLater = 2
  MaxVMs = 1
  MaxSync = 0
  MaxRequests = 1
  TimerQueue = 4
  ReadQueue = 1
  Prompt = TRUE
INVARIANT ShortTimersRun
CHECK_DEADLOCK FALSE
