-------------------------- MODULE MCULIDGenerator --------------------------
(* The instance of ULIDGenerator that TLC checks.                          *)
EXTENDS ULIDGenerator
=============================================================================
