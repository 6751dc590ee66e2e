----------------------------- MODULE Governance -----------------------------
(***************************************************************************)
(* EventGovernancePolicy and the global policy.  check_event() takes the   *)
(* policy under a lock and applies it after: other threads install another *)
(* one, or add to the sets and the rules of this one, between the stages   *)
(* of a check.  A rule is a function of the event's type; the rules are    *)
(* walked with an iterator over the live list.                             *)
(***************************************************************************)
EXTENDS Naturals, Sequences, FiniteSets

CONSTANTS
  Thread,
  Type,        \* event types
  Registered,  \* those of the schema registry
  Policy,      \* policy objects
  Strict,      \* those with strict_unknown
  Rule,
  RefusedBy,   \* RefusedBy[r]: the types for which rule r returns a reason
  None

ASSUME GovernanceAssumption ==
  /\ Registered \subseteq Type
  /\ Strict \subseteq Policy
  /\ None \notin Policy \cup Type
  /\ RefusedBy \in [Rule -> SUBSET Type]

VARIABLES
  escalate,      \* does the warnings filter turn GovernanceWarning into an error
  globalPolicy,  \* _GLOBAL_POLICY
  blocked,       \* blocked[p]: blocked_types
  deprecated,    \* deprecated[p]: warn_deprecated
  rules,         \* rules[p]: custom_rules
  check          \* the check that each thread is in, or its last one, with what
                 \*   its policy said when it began (history): fit to pass, due
                 \*   for a warning

governanceVars == <<escalate, globalPolicy, blocked, deprecated, rules, check>>

RefusedByRules(p, type) == \E i \in DOMAIN rules[p] : type \in RefusedBy[rules[p][i]]

\* A check_event() of policy p that nothing interrupts.
Refuses(p, type) ==
  \/ type \in blocked[p]
  \/ escalate /\ type \in deprecated[p]
  \/ RefusedByRules(p, type)
  \/ p \in Strict /\ type \notin Registered

LetThrough(p, type) == p = None \/ ~Refuses(p, type)

WarnsOf(p, type) == p # None /\ type \in deprecated[p]

NoCheck == [at |-> "idle", type |-> None, policy |-> None, fit |-> TRUE, due |-> FALSE,
            rule |-> 1, warned |-> FALSE]

GovernanceInit ==
  /\ escalate \in BOOLEAN
  /\ globalPolicy \in Policy \cup {None}
  /\ blocked = [p \in Policy |-> {}]
  /\ deprecated = [p \in Policy |-> {}]
  /\ rules = [p \in Policy |-> <<>>]
  /\ check = [t \in Thread |-> NoCheck]

NotChecking(t) == check[t].at \in {"idle", "allowed", "refused"}

SetGlobalPolicy(t, p) ==
  /\ NotChecking(t)
  /\ globalPolicy' = p
  /\ UNCHANGED <<escalate, blocked, deprecated, rules, check>>

AddBlockedType(t, p, type) ==
  /\ NotChecking(t)
  /\ blocked' = [blocked EXCEPT ![p] = @ \cup {type}]
  /\ UNCHANGED <<escalate, globalPolicy, deprecated, rules, check>>

AddDeprecatedType(t, p, type) ==
  /\ NotChecking(t)
  /\ deprecated' = [deprecated EXCEPT ![p] = @ \cup {type}]
  /\ UNCHANGED <<escalate, globalPolicy, blocked, rules, check>>

\* add_rule(), by a thread that checks nothing or from inside a rule.
AddRule(t, p, r) ==
  /\ NotChecking(t) \/ check[t].at = "rules"
  /\ rules' = [rules EXCEPT ![p] = Append(@, r)]
  /\ UNCHANGED <<escalate, globalPolicy, blocked, deprecated, check>>

Begun(type) ==
  [at |-> IF globalPolicy = None THEN "allowed" ELSE "blocked",
   type |-> type, policy |-> globalPolicy, fit |-> LetThrough(globalPolicy, type),
   due |-> WarnsOf(globalPolicy, type), rule |-> 1, warned |-> FALSE]

\* check_event(): the policy in force, taken under the lock.
CheckEvent(t, type) ==
  /\ NotChecking(t)
  /\ check' = [check EXCEPT ![t] = Begun(type)]
  /\ UNCHANGED <<escalate, globalPolicy, blocked, deprecated, rules>>

\* A stage of the check of thread t ends with a refusal or moves on.
Stage(t, at, refused, next) ==
  /\ check[t].at = at
  /\ check' = [check EXCEPT ![t] = IF refused THEN [@ EXCEPT !.at = "refused"] ELSE next]
  /\ UNCHANGED <<escalate, globalPolicy, blocked, deprecated, rules>>

\* 1. blocked_types
CheckBlocked(t) ==
  LET c == check[t]
  IN  Stage(t, "blocked", c.type \in blocked[c.policy], [c EXCEPT !.at = "deprecated"])

\* 2. warn_deprecated
CheckDeprecated(t) ==
  LET c == check[t]
      warns == c.type \in deprecated[c.policy]
  IN  Stage(t, "deprecated", warns /\ escalate, [c EXCEPT !.at = "rules", !.warned = warns])

\* Mutant of Remaining: the last rule is left out.
RemainingButLast(c) == c.rule < Len(rules[c.policy])

Remaining(c) == c.rule <= Len(rules[c.policy])

\* 3. custom_rules, one at a time
CheckRule(t) ==
  LET c == check[t]
  IN  /\ c.at = "rules" /\ Remaining(c)
      /\ Stage(t, "rules", c.type \in RefusedBy[rules[c.policy][c.rule]],
               [c EXCEPT !.rule = @ + 1])

\* 4. strict_unknown, once no rule is left
CheckUnknown(t) ==
  LET c == check[t]
  IN  /\ c.at = "rules" /\ ~Remaining(c)
      /\ Stage(t, "rules", c.policy \in Strict /\ c.type \notin Registered,
               [c EXCEPT !.at = "allowed"])

CheckStep(t) == CheckBlocked(t) \/ CheckDeprecated(t) \/ CheckRule(t) \/ CheckUnknown(t)

GovernanceTypeOK ==
  /\ escalate \in BOOLEAN
  /\ globalPolicy \in Policy \cup {None}
  /\ blocked \in [Policy -> SUBSET Type]
  /\ deprecated \in [Policy -> SUBSET Type]
  /\ rules \in [Policy -> Seq(Rule)]
  /\ check \in [Thread ->
       [at : {"idle", "blocked", "deprecated", "rules", "allowed", "refused"},
        type : Type \cup {None}, policy : Policy \cup {None}, fit : BOOLEAN,
        due : BOOLEAN, rule : Nat \ {0}, warned : BOOLEAN]]

----------------------------------------------------------------------------
Projected(t) ==
  [at |-> IF check[t].at \in {"blocked", "deprecated", "rules"} THEN "pending" ELSE check[t].at,
   type |-> check[t].type, policy |-> check[t].policy, fit |-> check[t].fit,
   due |-> check[t].due, warned |-> check[t].at = "allowed" /\ check[t].warned]

Gate == INSTANCE Gatekeeper WITH
  lets <- [p \in Policy |-> {type \in Type : ~Refuses(p, type)}],
  outdated <- deprecated,
  inForce <- globalPolicy,
  call <- [t \in Thread |-> Projected(t)]

\* The staged check implements one decision: an event that the policy in force
\* refused when check_event() was called never passes, whatever other threads
\* add or install; a refusal has a reason in that policy when it comes; and what
\* the policy called deprecated at the call passes with a warning.
ImplementsGatekeeper == Gate!Spec
=============================================================================
