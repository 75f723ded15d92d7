CONSTANTS
  handler = handler
  session = session
  store = store
  Producers <- MCProducers
  Owners <- MCProducers
  Starter <- MCStarter
  Subscribers <- MCSubscribers
  Capacity = 1
  MaxEvents = 2
  Batch = 2
  MaxFailures = 1
SPECIFICATION FairSpec
INVARIANTS SendsAccounted FileOrder RowsFollowStatements ShutdownDrains
PROPERTIES SavesInOrder ShutdownCompletes NobodyWaits
CHECK_DEADLOCK FALSE
