CONSTANTS
  Thread = {main, worker}
  LoopThread = main
  Id = {default, other}
  Quiet = {embedding}
  Reported = {llm}
  MaxRuns <- MCMaxRuns
  MaxMishaps = 1
  Setup <- MCSetup
  NoLimit = 9
  Call = {1, 2}
  Capacity = 2
SPECIFICATION FairSpec
CHECK_DEADLOCK FALSE
INVARIANTS TypeOK DurationsPair Accounted
PROPERTIES ImplementsHandover CallsEnd
