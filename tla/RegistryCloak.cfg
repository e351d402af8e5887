\* A cloak is passed on as a change and sent as a state; an older entry lowers the level
\* of a cloaked account (with -continue).
SPECIFICATION Spec
CHECK_DEADLOCK FALSE
CONSTANTS
  s1 = s1  s2 = s2  s3 = s3  None = None  p1 = p1  p2 = p2
  Server = {s1, s2}
  Edge <- MCPair
  Home = s1
  Admins = {s1, s2}
  Pass = {p1, p2}
  Level = {1, 2}
  Commands = {"CLOAK", "LEVEL", "ALTER", "QUIT"}
  Db0 <- MCUser
  Linked0 = FALSE
  Careful = TRUE
  Fragile = {}
  Faulty = {}
  NickExpire = 9
  MaxTime = 4
  MaxCommands = 3
  MaxLinks = 2
  MaxLogins = 2
  MaxDumps = 0
  MaxCrashes = 0
INVARIANTS CloaksAgree CloakedAreModerators
