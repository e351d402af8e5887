\* Users apart, on servers whose link comes up and goes down.
SPECIFICATION Spec
CHECK_DEADLOCK FALSE
CONSTANTS
  s1 = s1  s2 = s2  None = None  usr = usr  usr2 = usr2  mod = mod
  lobby = lobby  lobby1 = lobby1  room = room
  Server = {s1, s2}
  Edge <- MCPair
  Linked0 = FALSE
  Nick = {usr, usr2, mod}
  Home <- MCApart
  Level <- MCLevel
  Muzzled = {}
  Chan = {lobby}
  Registered = {}
  FileOps = {}
  Rollover <- MCRollover
  Limits = {0}
  Channel_Limit = 0
  Max_User_Channels = 1
  Strict = FALSE
  Modes = {"MODERATED"}
  Commands = {"LOGIN", "QUIT", "JOIN", "PART", "VOICE", "UNVOICE", "MUZZLE", "UNMUZZLE", "MODE"}
  Ruled = {lobby}
  MaxQueue = 1
  MaxLinks = 2
INVARIANTS MembersAgree MuzzledAreSilent
