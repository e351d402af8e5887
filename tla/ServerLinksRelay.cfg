SPECIFICATION Spec
CONSTANTS
  None = None
  s1 = s1
  s2 = s2
  s3 = s3
  Server = {s1, s2, s3}
  Admins = {s1, s2}
  Entries <- MCOpen
  Accepts <- MCOpen
  Careful = FALSE
  MaxConnects = 3
  MaxCuts = 0
  MaxFaults = 0
CHECK_DEADLOCK FALSE
PROPERTY RequestsHarmless
