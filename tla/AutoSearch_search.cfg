CONSTANTS
  MaxJobs = 3
  Plans <- SomePlans
  MaxPasses = 2
  MaxEvents = 2
SPECIFICATION FairSpec
INVARIANTS TypeOK OneSession NeverStranded
PROPERTIES SearchEnds
CHECK_DEADLOCK FALSE
