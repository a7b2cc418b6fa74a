SPECIFICATION LiveSpec
CONSTANTS
  MaxIds = 2
  MaxLater = 1
  MaxVMs = 2
  MaxSync = 1
  MaxRequests = 2
  TimerQueue = 1
  ReadQueue = 2
  Prompt = FALSE
INVARIANTS
  RunsOnce
  OneJobAtATime
  TicksFirst
  ReactionsRun
PROPERTY PageEnds
CHECK_DEADLOCK FALSE
