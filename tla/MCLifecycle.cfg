CONSTANTS
  MaxRetries = 2
  Nothing = Nothing
  Numeral <- MCNumeral
  Tried <- MCTried
  Varied <- MCVaried
SPECIFICATION LifeSpec
CHECK_DEADLOCK FALSE
INVARIANTS NothingLeaks GatesHold CopiesAgree SignatureLasts RetriesAddUp
