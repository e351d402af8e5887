\* A user changes the password, and then a link comes up.
SPECIFICATION Spec
CHECK_DEADLOCK FALSE
CONSTANTS
  s1 = s1  s2 = s2  s3 = s3  None = None  p1 = p1  p2 = p2
  Server = {s1, s2}
  Edge <- MCPair
  Home = s1
  Admins = {s1, s2}
  Pass = {p1, p2}
  Level = {1, 2}
  Commands = {"PASS"}
  Db0 <- MCUser
  Linked0 = FALSE
  Careful = TRUE
  Fragile = {}
  Faulty = {}
  NickExpire = 9
  MaxTime = 2
  MaxCommands = 1
  MaxLinks = 2
  MaxLogins = 1
  MaxDumps = 0
  MaxCrashes = 0
INVARIANTS NobodyKilled
