\* A level is passed on without its time-stamp: three servers in a line.
SPECIFICATION Spec
CHECK_DEADLOCK FALSE
CONSTANTS
  s1 = s1  s2 = s2  s3 = s3  None = None  p1 = p1  p2 = p2
  Server = {s1, s2, s3}
  Edge <- MCLine
  Home = s1
  Admins = {s1, s2, s3}
  Pass = {p1}
  Level = {1, 2, 3}
  Commands = {"LEVEL", "QUIT"}
  Db0 <- MCNew
  Linked0 = FALSE
  Careful = TRUE
  Fragile = {}
  Faulty = {}
  NickExpire = 9
  MaxTime = 4
  MaxCommands = 3
  MaxLinks = 3
  MaxLogins = 2
  MaxDumps = 0
  MaxCrashes = 0
INVARIANTS LevelsAgree
