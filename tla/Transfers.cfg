SPECIFICATION FairSpec
CONSTANTS
  s1 = s1
  s2 = s2
  s3 = s3
  ann = ann
  bob = bob
  cat = cat
  dan = dan
  None = None
  Server = {s1, s2, s3}
  Edge <- MCEdge
  Nick = {ann, bob, cat, dan}
  Home <- MCHome
  Toward <- MCToward
  Firewalled = {bob, cat}
  Ignores <- MCIgnores
  File = {"f"}
  Requests <- MCRequests
  MaxChanges = 1
  MaxRequests = 3
CHECK_DEADLOCK FALSE
INVARIANTS Connectable
PROPERTIES Answered Drains
