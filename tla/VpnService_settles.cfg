CONSTANTS
  Slots = {s1, s2}
  None = None
  Requests <- SettlingRequests
  Switches <- Neither
  MaxRetries = 1
  MaxQueued = 0
  MaxTimers = 2
SPECIFICATION FairSpec
PROPERTIES Settles StopCompletes
