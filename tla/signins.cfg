SPECIFICATION MCSpec
CONSTANTS
  alice = alice
  bob = bob
  None = None
  Users = {alice, bob}
  Root = alice
  Sessions = {s1, s2, s3}
  Requests = {r1, r2}
  MaxPasswords = 2
SYMMETRY Symmetry
ACTION_CONSTRAINT TwoOverlap
INVARIANTS
  RotatedIsClosed
  AdministratorUntilOverlap
  SessionsUntilOverlap
