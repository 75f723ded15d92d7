CONSTANTS
  handler = handler
  session = session
  store = store
  Producers <- MCProducers
  Owners <- MCProducers
  Starter <- MCStarter
  Subscribers <- MCSubscribers
  Capacity = 1
  MaxEvents = 2
  Batch = 2
  MaxFailures = 0
SPECIFICATION Spec
CHECK_DEADLOCK FALSE
INVARIANT ZeroDataLoss
