SPECIFICATION FairSpec
CONSTANTS
  None = None
  s1 = s1
  s2 = s2
  s3 = s3
  Server = {s1, s2, s3}
  Admins = {s1}
  Entries <- MCEntries
  Accepts <- MCAccepts
  Careful = TRUE
  MaxConnects = 3
  MaxCuts = 1
  MaxFaults = 1
CHECK_DEADLOCK FALSE
INVARIANTS TypeOK NoLoop NoHalfLink TablesMatch

PROPERTY EventuallySettled
