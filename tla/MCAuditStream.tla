--------------------------- MODULE MCAuditStream ---------------------------
(* The instance of AuditStream that TLC checks, with its mutants.          *)
EXTENDS AuditStream, TLC
Symm == Permutations(CallerId) \cup Permutations(RotationId)
=============================================================================
