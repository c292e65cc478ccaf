SPECIFICATION MCSpec
CONSTANTS
  Members = {m1, m2}
  Years = {y1}
  Amounts = {a1, a2}
  Vouchers = {v1, v2}
  Requests = {r1, r2}
  Null = Null
SYMMETRY Symmetry
CONSTRAINTS ListsBound KindsBound
ACTION_CONSTRAINTS TwoOverlap Offered
INVARIANTS
  EachOnItsOwnReceipt
  ReceiptsMatchUntilOverlap
PROPERTIES
  PaidUntilOverlap
