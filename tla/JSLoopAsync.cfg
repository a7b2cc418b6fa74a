SPECIFICATION Spec
CONSTANTS
  MaxIds = 3
  MaxLater = 3
  MaxVMs = 2
  MaxSync = 0
  MaxRequests = 1
  TimerQueue = 1
  ReadQueue = 1
  Prompt = FALSE
INVARIANT CallbacksRunOnce
CHECK_DEADLOCK FALSE
