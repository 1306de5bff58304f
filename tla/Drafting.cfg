SPECIFICATION Spec
CONSTANTS
  c1 = c1
  c2 = c2
  q1 = q1
  q2 = q2
  i1 = i1
  i2 = i2
  p1 = p1
  p2 = p2
  x1 = x1
  x2 = x2
  anita = anita
  anitaHi = anitaHi
  stores = stores
  ram = ram
  rice = rice
  basmati = basmati
  flour = flour
  chawal = chawal
  tea = tea
  phone1 = phone1
  Callers = {c1, c2}
  BreakerFailures = 2
  Cooldown = 2
  MaxTime = 5
  MaxWaits = 6
  Words = {anita, anitaHi, stores, ram, rice, basmati, flour, chawal, tea}
  FoldOf <- MCFold
  BonesOf <- MCBones
  ConceptOf <- MCConcept
  ScriptOf <- MCScript
  ShortFolds = {}
  None = None
  Products = {p1, p2}
  Parties = {x1, x2}
  Orders <- MCOrders
  Pens <- MCPens
  Slips <- MCSlips
  Goods <- MCGoods
  People <- MCPeople
  Prices <- MCPrices
  Drafts = {q1, q2}
  HasKey = TRUE
  HasOcr = TRUE
  MaxQuantity = 4
  MaxPrice = 9
  MaxChanges = 2
  Ids = {i1, i2}
  Inputs <- MCInputs
  TaxRate = 18
  MonthStart <- Calendar
  FirstDay = 423
  LastDay = 425
  AllowedDays = {7, 30, 90, 180, 365}
  Blank = Blank
SYMMETRY Symmetry
INVARIANTS
  WaitBudget
  NothingDropped
  DocumentIsDraft
  LinesNameGoods
  NumbersDiffer
  FiguresAgree
CHECK_DEADLOCK FALSE
