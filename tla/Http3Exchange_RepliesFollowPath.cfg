CONSTANTS
  Clients = {c1}
  None = None
  Server = Server
  MaxPtos = 1
  MaxCids = 2
  MaxRebinds = 1
  MaxNet = 2
  MaxDups = 1
  MaxFaults = 1
SPECIFICATION Spec
PROPERTY RepliesFollowPath
CHECK_DEADLOCK FALSE
