SPECIFICATION MCSpec
CONSTANTS
  hc = hc
  h1 = h1
  h2 = h2
  hi = hi
  b1 = b1
  f1 = f1
  f2 = f2
  p1 = p1
  Heads = {hc, h1, h2, hi}
  Banks = {b1, b2}
  Funds = {f1}
  Projects = {}
  Activities = {}
  Assets = {}
  Vouchers = {v1}
  Days = {1, 2}
  Amounts = {0, 1}
  SeedHeads <- SeededHeads
  SeedFunds <- SeededFunds
  CashHead = hc
  Offers <- ChartOffers
  Requests = {r1, r2}
  Keep = Keep
  Null = Null
SYMMETRY Symmetry
CONSTRAINT ChartBound
ACTION_CONSTRAINT TwoOverlap
INVARIANTS
  ChartIsTyped
  TreeUntilOverlap
PROPERTIES
  MastersUntilOverlap
  SettingsUntilOverlap
