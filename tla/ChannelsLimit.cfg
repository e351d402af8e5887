\* Two servers let a user each into a channel for one.
SPECIFICATION Spec
CHECK_DEADLOCK FALSE
CONSTANTS
  s1 = s1  s2 = s2  None = None  usr = usr  usr2 = usr2  mod = mod
  lobby = lobby  lobby1 = lobby1  room = room
  Server = {s1, s2}
  Edge <- MCPair
  Linked0 = TRUE
  Nick = {usr, usr2}
  Home <- MCApart
  Level <- MCLevel
  Muzzled = {}
  Chan = {room}
  Registered = {}
  FileOps = {}
  Rollover <- MCRollover
  Limits = {1}
  Channel_Limit = 1
  Max_User_Channels = 1
  Strict = FALSE
  Modes = {}
  Commands = {"LOGIN", "JOIN"}
  Ruled = {}
  MaxQueue = 1
  MaxLinks = 0
INVARIANTS LimitHeld
