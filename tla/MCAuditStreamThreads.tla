------------------------ MODULE MCAuditStreamThreads ------------------------
(* The instance of AuditStreamThreads that TLC checks.                     *)
EXTENDS AuditStreamThreads, TLC
Symm == Permutations(Writer) \cup Permutations(CallerId) \cup Permutations(RotationId)
=============================================================================
