SPECIFICATION MCSpec
CONSTANTS
  Sales = {s1, s2}
  Purchases = {b1}
  Products = {p1}
  Parties = {x1}
  NoParty = NoParty
  Quantities = {1}
  Totals = {0, 3}
  Payments = {2}
  Openings = {2}
  Corrections <- OnePiece
  MaxCorrected = 1
  MaxReplays = 1
SYMMETRY SaleSymmetry
INVARIANTS
  TypeOK
  MovesAreWhole
  StockIsLedger
  BalanceIsDues
  NoOversell
PROPERTIES
  CancelledIsFinal
CHECK_DEADLOCK FALSE
