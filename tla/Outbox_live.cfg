SPECIFICATION FairSpec
CONSTANTS
  Events = {e1, e2}
  Workers = {w1, w2}
  Guarded = {e1}
  NoEvent = NoEvent
  Dispatch = "celery"
  LimitEnforced = TRUE
  MaxRetries = 2
  TaskLimit = 1
  Abandoned = 2
  Stranded = 1
  ReplayFrom = {"done", "dead"}
  MaxReplays = 0
  MaxFaults = 1
  MaxCopies = 1
PROPERTIES
  EventuallySettled
CHECK_DEADLOCK FALSE
