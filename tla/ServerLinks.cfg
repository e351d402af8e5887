SPECIFICATION FairSpec
CONSTANTS
  None = None
  s1 = s1
  s2 = s2
  s3 = s3
  Server = {s1, s2, s3}
  Admins = {s1}
  Entries <- MCOpen
  Accepts <- MCOpen
  Careful = TRUE
  MaxConnects = 3
  MaxCuts = 1
  MaxFaults = 1
CHECK_DEADLOCK FALSE
INVARIANTS NoLoop NoHalfLink TablesMatch

PROPERTY EventuallySettled
