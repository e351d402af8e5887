SPECIFICATION SessionsSpec
CONSTANTS
  s1 = s1
  s2 = s2
  s3 = s3
  mod = mod
  usr = usr
  None = None
  f1 = f1
  f2 = f2
  f3 = f3
  Server = {s1, s2}
  Conn = {c1, c2}
  Nick = {usr, mod}
  Addr = {a1}
  Level <- MCLevel
  Edge <- MCPair
  Home <- MCRoamer
  Ghosts = TRUE
  Leaver = {mod}
  Linked0 = TRUE
  UniqueTime = TRUE
  CalmLinks = FALSE
  MaxTime = 3
  MaxLogins = 3
  MaxKills = 0
  MaxLinks = 1
  File = {}
  Max_Shared = 1
  Max_Hotlist = 0
  Watched = {usr}
  MaxUploads = 0
  MaxQueue = 1
CHECK_DEADLOCK FALSE
INVARIANTS HotlistsMirror NoticesTrue
