\* All users at one server; its peer follows.
SPECIFICATION Spec
CHECK_DEADLOCK FALSE
CONSTANTS
  s1 = s1  s2 = s2  None = None  usr = usr  usr2 = usr2  mod = mod
  lobby = lobby  lobby1 = lobby1  room = room
  Server = {s1, s2}
  Edge <- MCPair
  Linked0 = TRUE
  Nick = {usr, mod}
  Home <- MCHere
  Level <- MCLevel
  Muzzled = {}
  Chan = {lobby, lobby1}
  Registered = {lobby}
  FileOps = {usr}
  Rollover <- MCRollover
  Limits = {1, 2}
  Channel_Limit = 1
  Max_User_Channels = 1
  Strict = FALSE
  Modes = {"INVITE"}
  Commands = {"LOGIN", "QUIT", "JOIN", "PART", "KICK", "CLEAR", "OP", "DEOP", "MODE", "INVITE", "DROP", "LEVEL", "LIMIT", "BAN", "UNBAN", "CLEARBANS"}
  Ruled = {lobby}
  MaxQueue = 1
  MaxLinks = 0
INVARIANTS ListsMirror OpsMatch UserChannelsPopulated Replicated
