----------------------------- MODULE Gatekeeper -----------------------------
(***************************************************************************)
(* What an application may expect of the global governance policy.  A      *)
(* policy only ever gets stricter.  A check is decided by the policy that  *)
(* is in force when it is called: what this policy refuses at that moment  *)
(* never passes, and what passes a moment earlier is refused only if the   *)
(* same policy has come to refuse it meanwhile.  What it calls outdated at *)
(* that moment passes with a warning.                                      *)
(***************************************************************************)
CONSTANTS Thread, Type, Policy, None

VARIABLES
  lets,      \* lets[p]: the types of event that policy p lets through
  outdated,  \* outdated[p]: the types it warns of
  inForce,   \* the global policy, or None
  call       \* the last call of each thread, with what its policy said of the
             \*   event when it was called: fit to pass, due for a warning

vars == <<lets, outdated, inForce, call>>

Resting == {"idle", "allowed", "refused"}

Init ==
  /\ lets \in [Policy -> SUBSET Type]
  /\ outdated \in [Policy -> SUBSET Type]
  /\ inForce \in Policy \cup {None}
  /\ call = [t \in Thread |-> [at |-> "idle", type |-> None, policy |-> None,
                               fit |-> TRUE, due |-> FALSE, warned |-> FALSE]]

Install(p) == inForce' = p /\ UNCHANGED <<lets, outdated, call>>

Tighten(p) ==
  /\ \E S \in SUBSET lets[p] : lets' = [lets EXCEPT ![p] = S]
  /\ \E S \in SUBSET Type : outdated' = [outdated EXCEPT ![p] = @ \cup S]
  /\ UNCHANGED <<inForce, call>>

Lets(p, type) == p = None \/ type \in lets[p]

Call(t, type) ==
  /\ call[t].at \in Resting
  /\ call' = [call EXCEPT ![t] =
       [at |-> IF inForce = None THEN "allowed" ELSE "pending",
        type |-> type, policy |-> inForce, fit |-> Lets(inForce, type),
        due |-> inForce # None /\ type \in outdated[inForce],
        warned |-> FALSE]]
  /\ UNCHANGED <<lets, outdated, inForce>>

Allow(t) ==
  /\ call[t].at = "pending" /\ call[t].fit
  /\ \E warned \in BOOLEAN :
       /\ call[t].due => warned
       /\ warned => call[t].type \in outdated[call[t].policy]
       /\ call' = [call EXCEPT ![t].at = "allowed", ![t].warned = warned]
  /\ UNCHANGED <<lets, outdated, inForce>>

Refuse(t) ==
  /\ call[t].at = "pending" /\ ~Lets(call[t].policy, call[t].type)
  /\ call' = [call EXCEPT ![t].at = "refused"]
  /\ UNCHANGED <<lets, outdated, inForce>>

Next ==
  \/ \E p \in Policy \cup {None} : Install(p)
  \/ \E p \in Policy : Tighten(p)
  \/ \E t \in Thread : (\E type \in Type : Call(t, type)) \/ Allow(t) \/ Refuse(t)

Spec == Init /\ [][Next]_vars
=============================================================================
