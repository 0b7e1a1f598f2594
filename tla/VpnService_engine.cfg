CONSTANTS
  Slots = {s1, s2}
  None = None
  Requests <- EngineRequests
  Switches <- BothOrNeither
  MaxRetries = 1
  MaxQueued = 0
  MaxTimers = 2
SPECIFICATION Spec
SYMMETRY SlotSymmetry
INVARIANTS TypeOK OneAttempt KillSwitchSurvives NothingToResurrect
