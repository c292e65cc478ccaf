SPECIFICATION Spec
CONSTANTS
  y1 = y1
  y2 = y2
  NoUser = NoUser
  Vouchers = {v1}
  Years = {y1}
  Users = {alice, bob}
  Contents = {c1, c2}
  Requests = {r1, r2}
  ManageAll = {bob}
  Approvers = {alice, bob}
  Posters = {bob}
  AllowSelfApproval = FALSE
  CalendarYear <- OneCalendarYear
  MaxRef = 1
SYMMETRY Symmetry
INVARIANTS
  TypeOK
  PostedOnce
  PostedWasApproved
  SecondPairOfEyes
PROPERTIES
  PostedContentFrozen
