CONSTANTS
  Slots = {s1, s2}
  None = None
  Requests <- CarrierRequests
  Switches <- Neither
  MaxRetries = 1
  MaxQueued = 1
  MaxTimers = 2
SPECIFICATION Spec
SYMMETRY SlotSymmetry
INVARIANTS ParkedIsCancellable DeadPathNoticed
