SPECIFICATION MCSpec
CONSTANTS
  hc = hc
  h1 = h1
  h2 = h2
  hi = hi
  b1 = b1
  f1 = f1
  f2 = f2
  p1 = p1
  Heads = {hc, h1, hi}
  Banks = {}
  Funds = {f1, f2}
  Projects = {p1}
  Activities = {a1}
  Assets = {g1}
  Vouchers = {v1}
  Days = {1, 2}
  Amounts = {0, 1}
  SeedHeads <- SeededHeads
  SeedFunds <- SeededFunds
  CashHead = hc
  Offers <- DimensionOffers
  Requests = {r1, r2}
  Keep = Keep
  Null = Null
SYMMETRY Symmetry
CONSTRAINT DimensionsBound
ACTION_CONSTRAINT TwoOverlap
INVARIANTS
  
  PostingsBalance
PROPERTIES
  MastersUntilOverlap
  AssetsUntilOverlap
