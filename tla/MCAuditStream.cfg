CONSTANTS
  None = None
  CallerId = {c1, c2}
  RotationId = {r1, r2}
  Secret = {k1, k2}
  Blank = {blank}
  Serialisable = {p, marker}
  Unserialisable = {datetime}
  Marker = marker
  MaxEvents = 4
SPECIFICATION Spec
SYMMETRY Symm
INVARIANTS TypeOK NoGaps VerdictExact KeyAgreement
