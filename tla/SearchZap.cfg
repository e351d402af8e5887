SPECIFICATION Spec
CONSTANTS
  None = None
  s1 = s1
  s2 = s2
  s3 = s3
  c1 = c1
  c2 = c2
  Server = {s1, s2, s3}
  Edge <- MCLine
  Client = {c1}
  At <- MCMiddle
  Id = {1}
  Hits <- MCOne
  Max_Search_Results = 2
  Wanted = {2}
  Scopes = {FALSE}
  Views = {TRUE}
  Leaver = {c1}
  Search_Timeout = 0
  MaxTime = 0
  MaxSplits = 0
CHECK_DEADLOCK FALSE
PROPERTY EndsReachSomebody
