SPECIFICATION MCSpec
CONSTANTS
  Parties = {p}
  Null = Null
  Unsaid = Unsaid
  Requests = {r1, r2}
  Offered = {"type-create", "type-update", "type-remove", "assign", "unassign", "event-create", "event-update"}
  MaxInstances = 2
  MaxSlot = 3
  MaxAssigned = 1
  MaxEvent = 1
  LastDay = 0
  YearLength = 2
ACTION_CONSTRAINT TwoOverlap
SYMMETRY Symmetry
INVARIANTS
  CalendarHolds
  SlotsMatchUntilOverlap
PROPERTIES
  SponsorsUntilOverlap
CHECK_DEADLOCK FALSE
