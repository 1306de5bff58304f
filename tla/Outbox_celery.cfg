SPECIFICATION Spec
CONSTANTS
  Events = {e1, e2}
  Workers = {w1, w2}
  Guarded = {e1}
  NoEvent = NoEvent
  Dispatch = "celery"
  LimitEnforced = TRUE
  MaxRetries = 2
  TaskLimit = 1
  Abandoned = 2
  Stranded = 1
  ReplayFrom = {"done", "dead"}
  MaxReplays = 1
  MaxFaults = 1
  MaxCopies = 1
SYMMETRY WorkerSymmetry
INVARIANTS
  TypeOK
  SingleHolder
  AppliedAtMostOnce
  DoneMeansApplied
  DeadLetterBound
PROPERTIES
  NoTheft
  ImplementsDelivery
CHECK_DEADLOCK FALSE
