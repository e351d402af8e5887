SPECIFICATION Spec
CONSTANTS
  None = None
  s1 = s1
  s2 = s2
  s3 = s3
  c1 = c1
  c2 = c2
  Server = {s1, s2, s3}
  Edge <- MCLine
  Client = {c1, c2}
  At <- MCBoth
  Id = {1, 2, 3}
  Hits <- MCOne
  Max_Search_Results = 3
  Wanted = {1, 3}
  Scopes = {FALSE}
  Views = {TRUE}
  Leaver = {}
  Search_Timeout = 0
  MaxTime = 0
  MaxSplits = 0
CHECK_DEADLOCK FALSE
INVARIANTS AllAnswered FoundEnough
