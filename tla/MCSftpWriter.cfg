CONSTANTS
  h1 = h1
  h2 = h2
  Handles <- MCHandles
  Packets <- MCPackets
  MaxUploadSize = 3
  FlushStep = 2
  MaxWrites = 2
  MaxFailures = 1
SPECIFICATION Spec
INVARIANTS ClosedMeansSaved Throttled
CHECK_DEADLOCK FALSE
