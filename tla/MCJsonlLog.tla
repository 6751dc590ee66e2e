----------------------------- MODULE MCJsonlLog -----------------------------
(* The instance of JsonlLog that TLC checks.                               *)
EXTENDS JsonlLog
=============================================================================
