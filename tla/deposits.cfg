SPECIFICATION MCSpec
CONSTANTS
  None = None
  Vouchers = {v1, v2}
  Years = {y1}
  Deposits = {d1, d2, d3}
  Principals = {1, 2}
  Requests = {r1}
  Interleaved = FALSE
  MayCrash = TRUE
SYMMETRY Symmetry
CHECK_DEADLOCK FALSE
CONSTRAINT SmallBound
INVARIANTS
  RenewedHasSuccessor
  ChainIsLinear
  RegisterUntilCrash
  BooksUntilCrash
PROPERTIES
  SettledIsFinal
