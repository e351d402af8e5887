\* An invite-only channel: what a new peer hears of it, and (with -continue) what join()
\* hands to list_delete().
SPECIFICATION Spec
CHECK_DEADLOCK FALSE
CONSTANTS
  s1 = s1  s2 = s2  None = None  usr = usr  usr2 = usr2  mod = mod
  lobby = lobby  lobby1 = lobby1  room = room
  Server = {s1, s2}
  Edge <- MCPair
  Linked0 = FALSE
  Nick = {usr, mod}
  Home <- MCHere
  Level <- MCLevel
  Muzzled = {}
  Chan = {lobby}
  Registered = {lobby}
  FileOps = {}
  Rollover <- MCRollover
  Limits = {0}
  Channel_Limit = 0
  Max_User_Channels = 1
  Strict = FALSE
  Modes = {"INVITE"}
  Commands = {"LOGIN", "JOIN", "MODE"}
  Ruled = {lobby}
  MaxQueue = 1
  MaxLinks = 1
INVARIANTS ModesArrive
PROPERTIES ListsNotEmpty
