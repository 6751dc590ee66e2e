CONSTANTS
  Event = {plain, split, cut, bad}
  Unserialisable = {bad}
  SplitsLine = {split}
  MidCharacter = {cut}
  Newline = newline
  Mode = {"a", "w"}
  MaxBatch = 2
  MaxCalls = 3
  MaxFaults = 2
SPECIFICATION Spec
INVARIANT SkipErrorsSkips
