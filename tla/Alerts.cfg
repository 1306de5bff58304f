SPECIFICATION Spec
CONSTANTS
  restock = restock
  flag = flag
  own = own
  w1 = w1
  w2 = w2
  p1 = p1
  p2 = p2
  rice = rice
  Products = {p1, p2}
  Sales = {s1}
  Expenses = {x1}
  Names = {rice, dal}
  Rules = {restock, flag, own}
  BuiltIn = {restock}
  SeedForm <- SeedForms
  Forms <- AllForms
  NoForm = NoForm
  Erased = Erased
  Workers = {w1, w2}
  Idle = Idle
  Levels = {1, 2}
  Thresholds = {1}
  MaxEvents = 2
  MaxRetries = 2
  MaxEdits = 1
SYMMETRY Symmetry
INVARIANTS
  AlertedLow
  TwinsOverlapped
  AlertExplained
CHECK_DEADLOCK FALSE
