CONSTANTS
  span = span
  log = log
  metered_span = metered_span
  Event <- MCEvent
  Traced <- MCTraced
  Metered <- MCMetered
  Stream <- MCStream
  Predicate <- MCPredicate
  ApiKey = TRUE
  BatchSize = 2
  MaxRetries = 1
  Workers = 2
  MaxCalls = 2
SPECIFICATION FairSpec
CHECK_DEADLOCK FALSE
INVARIANTS TypeOK ReturnedIsDelivered StagesInOrder DuplicateOnlyAfterFailure QuietAfterEnd InOrder
PROPERTIES ImplementsCourier EveryCallEnds
