SPECIFICATION SessionsSpec
CONSTANTS
  s1 = s1
  s2 = s2
  s3 = s3
  mod = mod
  usr = usr
  None = None
  f1 = f1
  f2 = f2
  f3 = f3
  Server = {s1, s2}
  Conn = {c1}
  Nick = {usr}
  Addr = {a1}
  Level <- MCLevel
  Edge <- MCPair
  Home <- MCTogether
  Ghosts = FALSE
  Leaver = {usr}
  Linked0 = FALSE
  UniqueTime = FALSE
  CalmLinks = FALSE
  MaxTime = 0
  MaxLogins = 2
  MaxKills = 0
  MaxLinks = 2
  File = {f1, f2, f3}
  Max_Shared = 1
  Max_Hotlist = 0
  Watched = {}
  MaxUploads = 1
  MaxQueue = 3
SYMMETRY MCSymmetry
CHECK_DEADLOCK FALSE
INVARIANTS FilesMatch SharesReach NoPhantomUploads
