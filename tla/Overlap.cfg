SPECIFICATION OverlapSpec
CONSTANTS
  j1 = j1
  j2 = j2
  Jobs = {j1, j2}
  MaxTaken = 3
  Recorded <- MCRecorded
  Sales = {s1}
  Purchases = {b1}
  Products = {p1}
  Parties = {x1}
  NoParty = NoParty
  Quantities = {1}
  Totals = {3}
  Payments = {2}
  Openings = {2}
  Corrections <- OnePieceMore
  MaxCorrected = 2
  MaxReplays = 1
SYMMETRY Symmetric
INVARIANTS
  BalanceExplained
  StockExplained
  LabelsAgree
CHECK_DEADLOCK FALSE
