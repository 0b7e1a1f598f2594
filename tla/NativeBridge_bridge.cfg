CONSTANTS
  Threads = {t1, t2}
  NoThread = NoThread
SPECIFICATION FairSpec
INVARIANTS TypeOK PreparationsExclude ScansExclude EnginesReachable SlotIsLive
PROPERTIES ImplementsEngineSlot CancelledPreparationEnds StoppedRunReturns
