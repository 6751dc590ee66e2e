CONSTANTS
  Thread = {t1, t2}
  Nil = Nil
  MaxRand = 1
  MaxTimestamp = 3
  MaxClock = 4
  MaxSetbacks = 1
  MaxCalls = 4
SPECIFICATION Spec
INVARIANTS TypeOK IdsUnique RealTimeOrder
PROPERTIES EveryCallEnds ImplementsMonotonicIds
CHECK_DEADLOCK FALSE
