SPECIFICATION Spec
CONSTANTS
  b1 = b1
  b2 = b2
  x1 = x1
  p1 = p1
  Businesses = {b1}
  Mails = {}
  MaxUpdates = 3
  Reviewers = {}
  Nowhere = Nowhere
  Chats = {x1}
  NoChat = NoChat
  NoBusiness = NoBusiness
  Collectors = {c1, c2}
  Processes = {p1}
  ProcessOf <- OneProcess
  Contents <- ChatOrders
  Addresses = {b1}
  MaxFaults = 1
INVARIANTS
  NothingSkipped
PROPERTIES
  EventuallyConfirmed
CHECK_DEADLOCK FALSE
