CONSTANTS
  None = None
  e1 = e1
  e2 = e2
  r1 = r1
  k1 = k1
  k2 = k2
  k3 = k3
  p = p
  q = q
  datetime = datetime
  garbled = garbled
  Id <- MCId
  Secret = {k1, k2}
  Blank = {"blank"}
  Payload = {p, q, datetime}
  Unserialisable = {datetime}
  NonAscii = {garbled}
  Honest <- MCHonest
  Record <- MCRecord
  KeyMap <- MCKeyMap
  MaxLen = 4
SPECIFICATION Spec
INVARIANTS TypeOK LoopVerdict ValidIsValid ValidMeansSigned
CHECK_DEADLOCK FALSE
