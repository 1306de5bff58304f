SPECIFICATION Spec
CONSTANTS
  b1 = b1
  b2 = b2
  x1 = x1
  p1 = p1
  Businesses = {b1, b2}
  Mails = {i1}
  MaxUpdates = 1
  Reviewers = {r1, r2}
  Nowhere = Nowhere
  Chats = {x1}
  NoChat = NoChat
  NoBusiness = NoBusiness
  Collectors = {c1}
  Processes = {p1}
  ProcessOf <- OneProcess
  Contents <- ChatOrders
  Addresses = {b1}
  MaxFaults = 0
INVARIANTS
  RecordedOnce
CHECK_DEADLOCK FALSE
