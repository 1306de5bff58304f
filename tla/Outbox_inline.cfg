SPECIFICATION Spec
CONSTANTS
  Events = {e1, e2, e3}
  Workers = {w1, w2}
  Guarded = {e1, e2}
  NoEvent = NoEvent
  Dispatch = "inline"
  LimitEnforced = FALSE
  MaxRetries = 2
  TaskLimit = 1
  Abandoned = 2
  Stranded = 1
  ReplayFrom = {"done", "dead"}
  MaxReplays = 2
  MaxFaults = 1
  MaxCopies = 2
SYMMETRY WorkerSymmetry
PROPERTIES
  ImplementsDelivery
CHECK_DEADLOCK FALSE
