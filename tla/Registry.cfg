\* A pair of servers that one account is registered at.
SPECIFICATION FairSpec
CHECK_DEADLOCK FALSE
CONSTANTS
  s1 = s1  s2 = s2  s3 = s3  None = None  p1 = p1  p2 = p2
  Server = {s1, s2}
  Edge <- MCPair
  Home = s1
  Admins = {s1, s2}
  Pass = {p1, p2}
  Level = {1, 2, 3}
  Commands = {"LEVEL", "MUZZLE", "UNMUZZLE", "CLOAK", "PASS", "ALTER",
              "NUKE", "REGISTER", "SIGNUP", "QUIT"}
  Db0 <- MCUser
  Linked0 = FALSE
  Careful = TRUE
  Fragile = {s2}
  Faulty = {s2}
  NickExpire = 2
  MaxTime = 2
  MaxCommands = 2
  MaxLinks = 2
  MaxLogins = 1
  MaxDumps = 1
  MaxCrashes = 1
INVARIANTS LevelsAgree MuzzlesAgree Recoverable
PROPERTIES EventuallyQuiet
