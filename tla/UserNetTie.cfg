SPECIFICATION Spec
CONSTANTS
  s1 = s1
  s2 = s2
  s3 = s3
  mod = mod
  usr = usr
  None = None
  Server = {s1, s2}
  Conn = {c1, c2}
  Nick = {usr}
  Addr = {a1}
  Level <- MCLevel
  Edge <- MCPair
  Home <- MCAnywhere
  Ghosts = FALSE
  Leaver = {}
  Linked0 = TRUE
  UniqueTime = FALSE
  CalmLinks = FALSE
  MaxTime = 1
  MaxLogins = 2
  MaxKills = 0
  MaxLinks = 0
CHECK_DEADLOCK FALSE
INVARIANTS OneWinner
