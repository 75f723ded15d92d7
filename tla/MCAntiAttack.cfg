CONSTANTS
  MaxBytes = 1
  MaxDay = 1
  MaxFailures = 1
  MaxRuns = 2
SPECIFICATION FairSpec
INVARIANTS RelaysAll OneDayPerFile
PROPERTY RelayEnds
CHECK_DEADLOCK FALSE
