SPECIFICATION Spec
CONSTANTS
  a1 = a1
  a2 = a2
  a3 = a3
  m1 = m1
  b1 = b1
  i1 = i1
  i2 = i2
  q1 = q1
  q2 = q2
  n1 = n1
  n2 = n2
  h1 = h1
  Accounts = {a1, a2, a3}
  Emails = {m1, m2}
  Businesses = {b1, b2}
  Invites = {i1, i2}
  Requests = {q1, q2}
  Founders <- Start
  Nobody = Nobody
  MaxExpired = 1
  Names = {n1, n2}
  Addresses = {h1}
  Attempts = {q1, q2}
  MaxAttempts = 2
  LockTicks = 1
  MaxLock = 2
  Lookback = 2
  Retention = 2
  WindowTicks = 1
  MaxIpAttempts = 3
  Horizon = 3
  MaxRows = 4
SYMMETRY Symmetry
INVARIANTS
  LastOwnerKept
  OneSeat
  LinksReplaced
  GuessBudget
  SprayBudget
CHECK_DEADLOCK FALSE
