SPECIFICATION MCSpec
CONSTANTS
  Parties = {p}
  Null = Null
  Unsaid = Unsaid
  Requests = {r1, r2}
  Offered = {"type-create", "slot-update", "assign", "unassign", "retire", "reinstate", "membership", "event-create", "event-update", "event-complete", "event-remove", "cite"}
  MaxInstances = 1
  MaxSlot = 1
  MaxAssigned = 1
  MaxEvent = 2
  LastDay = 1
  YearLength = 2
ACTION_CONSTRAINT TwoOverlap
SYMMETRY Symmetry
INVARIANTS
  CalendarHolds
PROPERTIES
  OccurrencesUntilOverlap
CHECK_DEADLOCK FALSE
