\* The account of a user who stays online expires; the disk fails (with -continue).
SPECIFICATION Spec
CHECK_DEADLOCK FALSE
CONSTANTS
  s1 = s1  s2 = s2  s3 = s3  None = None  p1 = p1  p2 = p2
  Server = {s1, s2}
  Edge <- MCPair
  Home = s1
  Admins = {s1, s2}
  Pass = {p1}
  Level = {1, 2}
  Commands = {"MUZZLE", "UNMUZZLE"}
  Db0 <- MCUser
  Linked0 = FALSE
  Careful = TRUE
  Fragile = {s2}
  Faulty = {s2}
  NickExpire = 2
  MaxTime = 4
  MaxCommands = 2
  MaxLinks = 1
  MaxLogins = 1
  MaxDumps = 2
  MaxCrashes = 1
INVARIANTS MuzzlesAgree CopyOnDisk Recoverable
