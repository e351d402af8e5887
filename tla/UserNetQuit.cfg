SPECIFICATION Spec
CONSTANTS
  s1 = s1
  s2 = s2
  s3 = s3
  mod = mod
  usr = usr
  None = None
  Server = {s1, s2, s3}
  Conn = {c1, c2}
  Nick = {usr}
  Addr = {a1}
  Level <- MCLevel
  Edge <- MCLine
  Home <- MCAnywhere
  Ghosts = FALSE
  Leaver = {usr}
  Linked0 = TRUE
  UniqueTime = TRUE
  CalmLinks = FALSE
  MaxTime = 3
  MaxLogins = 2
  MaxKills = 0
  MaxLinks = 0
CHECK_DEADLOCK FALSE
PROPERTIES QuitMeansClosed
