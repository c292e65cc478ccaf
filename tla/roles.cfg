SPECIFICATION MCSpec
CONSTANTS
  Instances = {i1, i2}
  Requests = {r1, r2}
  Permissions = {a, b, c}
  Keys = {a}
  Nowhere = Nowhere
  MaxChanges = 2
INVARIANTS
  GrantsAreOneChoice
  InvalidatedUntilOverlap
PROPERTIES
  ChangesReachEveryInstance
