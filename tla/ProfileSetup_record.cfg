SPECIFICATION FairSpec
CONSTANTS
  Requests = {r1}
  Profiles = {p1}
  Expiring = {r1}
  MaxTries = 2
  None = None
PROPERTIES RecordSettles
CHECK_DEADLOCK FALSE
