SPECIFICATION Spec
CONSTANTS
  Requests = {r1, r2}
  Profiles = {p1, p2}
  Expiring = {}
  MaxTries = 2
  None = None
SYMMETRY Symmetry
INVARIANTS TypeOK SetupReportsAreTrue
PROPERTIES ConcurrentEditsSurvive
CHECK_DEADLOCK FALSE
