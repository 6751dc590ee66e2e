CONSTANTS
  None = None
  Writer = {w1, w2}
  Verifier = {v1}
  CallerId = {c1}
  RotationId = {r1, r2}
  Secret = {k1, k2}
  Body = body
  Marker = marker
  MaxEvents = 4
SPECIFICATION Spec
SYMMETRY Symm
INVARIANTS TypeOK AlarmExplained OnlyRotationsTamper
PROPERTY ImplementsAuditStream
