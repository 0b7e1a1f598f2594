CONSTANTS
  Lanes <- SomeLanes
  Engines <- SomeEngines
  None = None
SPECIFICATION FairSpec
INVARIANTS LosersStopped WinnerKept SomeLaneRuns
PROPERTIES SettledForGood RaceSettles
CHECK_DEADLOCK FALSE
