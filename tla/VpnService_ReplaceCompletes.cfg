CONSTANTS
  Slots = {s1, s2}
  None = None
  Requests <- OneCarrier
  Switches <- Neither
  MaxRetries = 1
  MaxQueued = 1
  MaxTimers = 2
SPECIFICATION FairSpec
PROPERTY ReplaceCompletes
