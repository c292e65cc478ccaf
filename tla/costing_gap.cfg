SPECIFICATION MCSpec
CONSTANTS
  Slots = {}
  TypeWide = TypeWide
  Charges = {c1}
  NoLines = NoLines
  Null = Null
  Requests = {r1}
  NamedDays = {1}
  MaxId = 3
  MaxDay = 1
SYMMETRY Symmetry
CHECK_DEADLOCK FALSE
INVARIANTS
  PeriodsMeet
