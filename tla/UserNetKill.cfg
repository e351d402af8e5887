SPECIFICATION Spec
CONSTANTS
  s1 = s1
  s2 = s2
  s3 = s3
  mod = mod
  usr = usr
  None = None
  Server = {s1, s2}
  Conn = {c1, c2}
  Nick = {usr, mod}
  Addr = {a1}
  Level <- MCLevel
  Edge <- MCPair
  Home <- MCTogether
  Ghosts = FALSE
  Leaver = {}
  Linked0 = FALSE
  UniqueTime = TRUE
  CalmLinks = FALSE
  MaxTime = 2
  MaxLogins = 2
  MaxKills = 1
  MaxLinks = 1
CHECK_DEADLOCK FALSE
INVARIANTS NoGhost
