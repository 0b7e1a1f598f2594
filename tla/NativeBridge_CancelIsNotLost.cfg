CONSTANTS
  Threads = {t1, t2}
  NoThread = NoThread
SPECIFICATION Spec
INVARIANT CancelIsNotLost
