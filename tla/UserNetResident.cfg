SPECIFICATION Spec
CONSTANTS
  s1 = s1
  s2 = s2
  s3 = s3
  mod = mod
  usr = usr
  None = None
  Server = {s1, s2, s3}
  Conn = {c1, c2}
  Nick = {usr, mod}
  Addr = {a1}
  Level <- MCLevel
  Edge <- MCLine
  Home <- MCTogether
  Ghosts = TRUE
  Leaver = {usr}
  Linked0 = FALSE
  UniqueTime = TRUE
  CalmLinks = TRUE
  MaxTime = 2
  MaxLogins = 2
  MaxKills = 1
  MaxLinks = 3
CHECK_DEADLOCK FALSE
INVARIANTS EntriesHaveConnections Backed Agreement
