SPECIFICATION MCSpec
CONSTANTS
  Slots = {s}
  TypeWide = TypeWide
  Charges = {c1}
  NoLines = NoLines
  Null = Null
  Requests = {r1, r2}
  NamedDays = {1}
  MaxId = 3
  MaxDay = 1
CONSTRAINT OverlapBound
ACTION_CONSTRAINT AppliesAfter
SYMMETRY Symmetry
CHECK_DEADLOCK FALSE
INVARIANTS
  NoTies
  VersionsUntilOverlap
PROPERTIES
  PastUntilOverlap
