----------------------------- MODULE Singletons -----------------------------
(***************************************************************************)
(* One process: its threads check events against the global governance     *)
(* policy, register consumers, mark and look up deprecated types and run   *)
(* check-consumers, in any order.  A thread makes one call at a time.      *)
(***************************************************************************)
EXTENDS Governance, Registries

CONSTANT MaxCalls  \* bound: calls the threads make

ASSUME SingletonsAssumption == Client = Thread /\ MaxCalls \in Nat

VARIABLE calls

vars == <<governanceVars, registryVars, calls>>

Init == GovernanceInit /\ RegistriesInit /\ calls = 0

Calls == calls < MaxCalls /\ calls' = calls + 1

Govern(t) ==
  /\ Free(t) /\ Calls
  /\ \/ \E p \in Policy \cup {None} : SetGlobalPolicy(t, p)
     \/ \E p \in Policy, type \in Type : AddBlockedType(t, p, type) \/ AddDeprecatedType(t, p, type)
     \/ \E p \in Policy, r \in Rule : AddRule(t, p, r)
     \/ \E type \in Type : CheckEvent(t, type)
  /\ UNCHANGED registryVars

Consult(t) ==
  /\ NotChecking(t) /\ Calls
  /\ \/ \E tool \in Tool, version \in Version : Register(t, tool, version)
     \/ CheckConsumers(t)
     \/ ClearConsumers(t)
     \/ \E s \in Spelling : MarkDeprecated(t, s) \/ RemoveNotice(t, s) \/ GetNotice(t, s)
     \/ ClearNotices(t)
  /\ UNCHANGED governanceVars

Finish(t) ==
  /\ \/ CheckStep(t) /\ UNCHANGED registryVars
     \/ (ReportConsumers(t) \/ ShowNotice(t)) /\ UNCHANGED governanceVars
  /\ UNCHANGED calls

Next == \E t \in Thread : Govern(t) \/ Consult(t) \/ Finish(t)

Spec == Init /\ [][Next]_vars

TypeOK == GovernanceTypeOK /\ RegistriesTypeOK /\ calls \in 0 .. MaxCalls
=============================================================================
