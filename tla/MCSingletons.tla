---------------------------- MODULE MCSingletons ----------------------------
(* The instance of Singletons that TLC checks.                             *)
EXTENDS Singletons
MCRefusedBy == [r \in Rule |-> {CHOOSE type \in Registered : TRUE}]
MCVersion == {<<1, 0>>, <<1, 1>>}
MCInstalled == <<1, 0>>
MCSpelling == {"llm.x", " llm.x "}
MCStrip == [s \in MCSpelling |-> "llm.x"]
=============================================================================
