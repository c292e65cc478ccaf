SPECIFICATION Spec
CONSTANTS
  y1 = y1
  y2 = y2
  NoUser = NoUser
  Vouchers = {v1, v2}
  Years = {y1, y2}
  Users = {alice}
  Contents = {c1, c2}
  Requests = {r1}
  ManageAll = {alice}
  Approvers = {alice}
  Posters = {alice}
  AllowSelfApproval = TRUE
  CalendarYear <- DistinctCalendarYears
  MaxRef = 2
CONSTRAINT OneLost
SYMMETRY Symmetry
INVARIANTS
  OnlyPostedTouchesLedger
  LedgerMatchesVoucher
  ClosedYearIsOver
  
PROPERTIES
  ImplementsPromise
