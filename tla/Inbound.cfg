SPECIFICATION Spec
CONSTANTS
  b1 = b1
  b2 = b2
  x1 = x1
  p1 = p1
  Businesses = {b1, b2}
  Mails = {i1}
  MaxUpdates = 2
  Reviewers = {r1}
  Nowhere = Nowhere
  Chats = {x1}
  NoChat = NoChat
  NoBusiness = NoBusiness
  Collectors = {c1, c2}
  Processes = {p1}
  ProcessOf <- OneProcess
  Contents <- ChatUpdates
  Addresses = {b1}
  MaxFaults = 1
SYMMETRY Symmetry
INVARIANTS
  TypeOK
  MailLostOnlyByFault
  NoStrangersOrder
  AcceptedIsRecorded
  RecordedOnce
PROPERTIES
  ImplementsDecisions
CHECK_DEADLOCK FALSE
