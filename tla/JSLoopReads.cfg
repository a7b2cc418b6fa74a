SPECIFICATION Spec
CONSTANTS
  MaxIds = 2
  MaxLater = 2
  MaxVMs = 1
  MaxSync = 0
  MaxRequests = 2
  TimerQueue = 1
  ReadQueue = 2
  Prompt = FALSE
INVARIANT OwnResults
CHECK_DEADLOCK FALSE
