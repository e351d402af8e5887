SPECIFICATION FairSpec
CONSTANTS
  None = None
  s1 = s1
  s2 = s2
  s3 = s3
  c1 = c1
  c2 = c2
  Server = {s1, s2, s3}
  Edge <- MCLine
  Client = {c1}
  At <- MCEnd
  Id = {1, 2}
  Hits <- MCApart
  Max_Search_Results = 2
  Wanted = {2}
  Scopes = {FALSE}
  Views = {TRUE, FALSE}
  Leaver = {c1}
  Search_Timeout = 0
  MaxTime = 1
  MaxSplits = 1
CHECK_DEADLOCK FALSE
INVARIANTS NoDanglingSearch WaitsForLinks NoEcho
PROPERTIES Serves
