-------------------------- MODULE SingletonsProofs --------------------------
(* Proofs about Singletons, for every set of threads, types, policies,     *)
(* rules, tools and versions and every number of calls: first governance,  *)
(* then the registries.                                                    *)
EXTENDS Singletons, TLAPS

Staged(c) == c.at \in {"blocked", "deprecated", "rules"}

UnknownTo(p, type) == p \in Strict /\ type \notin Registered

\* Rule number k or a later one refuses the type.
RefusedFrom(p, type, k) ==
  \E i \in DOMAIN rules[p] : i >= k /\ type \in RefusedBy[rules[p][i]]

\* A reason to refuse the event that check c has not come to yet.
Ahead(c) ==
  \/ c.at = "blocked" /\ Refuses(c.policy, c.type)
  \/ /\ c.at = "deprecated"
     /\ \/ escalate /\ c.type \in deprecated[c.policy]
        \/ RefusedByRules(c.policy, c.type)
        \/ UnknownTo(c.policy, c.type)
  \/ /\ c.at = "rules"
     /\ RefusedFrom(c.policy, c.type, c.rule) \/ UnknownTo(c.policy, c.type)

\* What the stages of a check that lie behind it leave open.
Pending(c) ==
  Staged(c) =>
    /\ c.policy \in Policy /\ c.type \in Type
    /\ ~c.fit => Ahead(c)
    /\ c.due => c.type \in deprecated[c.policy]
    /\ c.due /\ c.at = "rules" => c.warned
    /\ c.warned => c.type \in deprecated[c.policy]
    /\ c.at # "rules" => c.rule = 1

ChecksInv == \A t \in Thread : Pending(check[t])

----------------------------------------------------------------------------
\* The actions, one disjunct each.

GovernActions(t) ==
  \/ \E p \in Policy \cup {None} : SetGlobalPolicy(t, p)
  \/ \E p \in Policy, type \in Type : AddBlockedType(t, p, type)
  \/ \E p \in Policy, type \in Type : AddDeprecatedType(t, p, type)
  \/ \E p \in Policy, r \in Rule : AddRule(t, p, r)
  \/ \E type \in Type : CheckEvent(t, type)
  \/ CheckBlocked(t)
  \/ CheckDeprecated(t)
  \/ CheckRule(t)
  \/ CheckUnknown(t)

Check ==
  [at : {"idle", "blocked", "deprecated", "rules", "allowed", "refused"},
   type : Type \cup {None}, policy : Policy \cup {None}, fit : BOOLEAN,
   due : BOOLEAN, rule : Nat \ {0}, warned : BOOLEAN]

\* A step of a check changes nothing but that check, which becomes c.
Moves(t, c) ==
  /\ check' = [check EXCEPT ![t] = c]
  /\ UNCHANGED <<escalate, globalPolicy, blocked, deprecated, rules>>

\* The registries leave the policies alone.
LEMMA GovernanceSteps ==
  [Next]_vars => (\E t \in Thread : GovernActions(t)) \/ UNCHANGED governanceVars
<1> SUFFICES ASSUME [Next]_vars
             PROVE  (\E t \in Thread : GovernActions(t)) \/ UNCHANGED governanceVars
  OBVIOUS
<1>1. CASE UNCHANGED vars
  BY <1>1 DEF vars
<1>2. ASSUME NEW t \in Thread, Govern(t) PROVE GovernActions(t)
  BY <1>2 DEF Govern, GovernActions
<1>3. ASSUME NEW t \in Thread, Consult(t) PROVE UNCHANGED governanceVars
  BY <1>3 DEF Consult
<1>4. ASSUME NEW t \in Thread, Finish(t)
      PROVE  GovernActions(t) \/ UNCHANGED governanceVars
  BY <1>4 DEF Finish, CheckStep, GovernActions
<1> QED BY <1>1, <1>2, <1>3, <1>4 DEF Next

\* What one more rule leaves as it was, and that no rule is forgotten.
LEMMA OneMoreRule ==
  ASSUME GovernanceTypeOK, NEW q \in Policy, NEW r \in Rule,
         rules' = [rules EXCEPT ![q] = Append(@, r)]
  PROVE  \A p \in Policy :
           /\ rules'[p] \in Seq(Rule)
           /\ \A i \in DOMAIN rules[p] : i \in DOMAIN rules'[p] /\ rules'[p][i] = rules[p][i]
<1> SUFFICES ASSUME NEW p \in Policy
             PROVE  /\ rules'[p] \in Seq(Rule)
                    /\ \A i \in DOMAIN rules[p] :
                         i \in DOMAIN rules'[p] /\ rules'[p][i] = rules[p][i]
  OBVIOUS
<1>1. rules \in [Policy -> Seq(Rule)]
  BY DEF GovernanceTypeOK
<1>2. CASE p = q
  <2> DEFINE s == rules[q]
  <2>1. s \in Seq(Rule) /\ rules'[p] = Append(s, r)
    BY <1>1, <1>2
  <2> HIDE DEF s
  <2>2. Append(s, r) \in Seq(Rule)
    BY <2>1
  <2>3. \A i \in DOMAIN s : i \in DOMAIN Append(s, r) /\ Append(s, r)[i] = s[i]
    BY <2>1
  <2> QED BY <1>2, <2>1, <2>2, <2>3 DEF s
<1>3. CASE p # q
  BY <1>1, <1>3
<1> QED BY <1>2, <1>3

----------------------------------------------------------------------------
\* What each step does to the check of its thread, if all is well typed.

LEMMA BegunType ==
  ASSUME GovernanceTypeOK, NEW type \in Type
  PROVE  Begun(type) \in Check
<1>1. LetThrough(globalPolicy, type) \in BOOLEAN
  BY DEF LetThrough
<1>2. WarnsOf(globalPolicy, type) \in BOOLEAN
  BY DEF WarnsOf
<1>3. PICK fit \in BOOLEAN, due \in BOOLEAN :
        fit = LetThrough(globalPolicy, type) /\ due = WarnsOf(globalPolicy, type)
  BY <1>1, <1>2
<1>4. PICK at \in {"allowed", "blocked"} :
        at = IF globalPolicy = None THEN "allowed" ELSE "blocked"
  OBVIOUS
<1>5. Begun(type) = [at |-> at, type |-> type, policy |-> globalPolicy, fit |-> fit,
                     due |-> due, rule |-> 1, warned |-> FALSE]
  BY <1>3, <1>4 DEF Begun
<1> QED BY <1>5 DEF Check, GovernanceTypeOK

LEMMA CheckBegins ==
  ASSUME GovernanceTypeOK, NEW t \in Thread, NEW type \in Type, CheckEvent(t, type)
  PROVE  NotChecking(t) /\ Moves(t, Begun(type))
<1> QED BY DEF CheckEvent, Moves

LEMMA StageBlocked ==
  ASSUME NEW t \in Thread, CheckBlocked(t)
  PROVE  LET c == check[t] IN
           /\ c.at = "blocked"
           /\ \/ c.type \in blocked[c.policy] /\ Moves(t, [c EXCEPT !.at = "refused"])
              \/ c.type \notin blocked[c.policy] /\ Moves(t, [c EXCEPT !.at = "deprecated"])
<1> QED BY DEF CheckBlocked, Stage, Moves

LEMMA StageDeprecated ==
  ASSUME NEW t \in Thread, CheckDeprecated(t)
  PROVE  LET c == check[t]
             warns == c.type \in deprecated[c.policy]
         IN
           /\ c.at = "deprecated"
           /\ \/ warns /\ escalate /\ Moves(t, [c EXCEPT !.at = "refused"])
              \/ /\ ~(warns /\ escalate)
                 /\ Moves(t, [c EXCEPT !.at = "rules", !.warned = warns])
<1> DEFINE c == check[t]
           warns == c.type \in deprecated[c.policy]
           next == [c EXCEPT !.at = "rules", !.warned = warns]
<1>1. /\ c.at = "deprecated"
      /\ UNCHANGED <<escalate, globalPolicy, blocked, deprecated, rules>>
      /\ check' = [check EXCEPT ![t] = IF warns /\ escalate THEN [@ EXCEPT !.at = "refused"]
                                      ELSE next]
  BY Zenon DEF CheckDeprecated, Stage
<1>2. CASE warns /\ escalate
  <2>1. check' = [check EXCEPT ![t] = [c EXCEPT !.at = "refused"]]
    BY <1>1, <1>2
  <2> QED BY <1>1, <1>2, <2>1 DEF Moves
<1>3. CASE ~(warns /\ escalate)
  <2>1. check' = [check EXCEPT ![t] = next]
    BY <1>1, <1>3
  <2> QED BY <1>1, <1>3, <2>1 DEF Moves
<1> QED BY <1>2, <1>3

LEMMA StageRule ==
  ASSUME NEW t \in Thread, CheckRule(t)
  PROVE  LET c == check[t]
             refused == c.type \in RefusedBy[rules[c.policy][c.rule]]
         IN
           /\ c.at = "rules" /\ Remaining(c)
           /\ \/ refused /\ Moves(t, [c EXCEPT !.at = "refused"])
              \/ ~refused /\ Moves(t, [c EXCEPT !.rule = @ + 1])
<1> QED BY DEF CheckRule, Stage, Moves

LEMMA StageUnknown ==
  ASSUME NEW t \in Thread, CheckUnknown(t)
  PROVE  LET c == check[t] IN
           /\ c.at = "rules" /\ ~Remaining(c)
           /\ \/ UnknownTo(c.policy, c.type) /\ Moves(t, [c EXCEPT !.at = "refused"])
              \/ ~UnknownTo(c.policy, c.type) /\ Moves(t, [c EXCEPT !.at = "allowed"])
<1> QED BY DEF CheckUnknown, Stage, Moves, UnknownTo

LEMMA MovesType ==
  ASSUME GovernanceTypeOK, NEW t \in Thread, NEW c \in Check, Moves(t, c)
  PROVE  GovernanceTypeOK'
<1> QED BY DEF GovernanceTypeOK, Moves, Check

----------------------------------------------------------------------------
LEMMA TypeStep == GovernanceTypeOK /\ [Next]_vars => GovernanceTypeOK'
<1> SUFFICES ASSUME GovernanceTypeOK, [Next]_vars PROVE GovernanceTypeOK'
  OBVIOUS
<1>0. \A t \in Thread : check[t] \in Check
  BY DEF GovernanceTypeOK, Check
<1> USE DEF GovernanceTypeOK
<1>1. CASE UNCHANGED governanceVars
  BY <1>1 DEF governanceVars
<1>2. ASSUME NEW t \in Thread, NEW p \in Policy \cup {None}, SetGlobalPolicy(t, p)
      PROVE  GovernanceTypeOK'
  BY <1>2 DEF SetGlobalPolicy
<1>3. ASSUME NEW t \in Thread, NEW p \in Policy, NEW type \in Type, AddBlockedType(t, p, type)
      PROVE  GovernanceTypeOK'
  BY <1>3 DEF AddBlockedType
<1>4. ASSUME NEW t \in Thread, NEW p \in Policy, NEW type \in Type, AddDeprecatedType(t, p, type)
      PROVE  GovernanceTypeOK'
  BY <1>4 DEF AddDeprecatedType
<1>5. ASSUME NEW t \in Thread, NEW p \in Policy, NEW r \in Rule, AddRule(t, p, r)
      PROVE  GovernanceTypeOK'
  <2>1. \A q \in Policy : rules'[q] \in Seq(Rule)
    BY <1>5, OneMoreRule DEF AddRule
  <2>2. rules' \in [Policy -> Seq(Rule)]
    BY <1>5, <2>1 DEF AddRule
  <2> QED BY <1>5, <2>2 DEF AddRule
<1>6. ASSUME NEW t \in Thread, NEW type \in Type, CheckEvent(t, type)
      PROVE  GovernanceTypeOK'
  BY <1>6, BegunType, CheckBegins, MovesType
<1>7. ASSUME NEW t \in Thread, CheckBlocked(t) PROVE GovernanceTypeOK'
  BY <1>7, <1>0, StageBlocked, MovesType DEF Check
<1>8. ASSUME NEW t \in Thread, CheckDeprecated(t) PROVE GovernanceTypeOK'
  <2> DEFINE warns == check[t].type \in deprecated[check[t].policy]
  <2>1. /\ [check[t] EXCEPT !.at = "refused"] \in Check
        /\ \A b \in BOOLEAN : [check[t] EXCEPT !.at = "rules", !.warned = b] \in Check
    BY <1>0 DEF Check
  <2>2. warns \in BOOLEAN
    OBVIOUS
  <2>3. [check[t] EXCEPT !.at = "rules", !.warned = warns] \in Check
    BY Zenon, <2>1, <2>2
  <2> QED BY Zenon, <1>8, <2>1, <2>3, StageDeprecated, MovesType
<1>9. ASSUME NEW t \in Thread, CheckRule(t) PROVE GovernanceTypeOK'
  <2>1. check[t].rule + 1 \in Nat \ {0}
    BY <1>0 DEF Check
  <2>2. /\ [check[t] EXCEPT !.at = "refused"] \in Check
        /\ \A k \in Nat \ {0} : [check[t] EXCEPT !.rule = k] \in Check
    BY <1>0 DEF Check
  <2> QED BY Zenon, <1>9, <2>1, <2>2, StageRule, MovesType
<1>10. ASSUME NEW t \in Thread, CheckUnknown(t) PROVE GovernanceTypeOK'
  BY <1>10, <1>0, StageUnknown, MovesType DEF Check
<1> QED
  BY <1>1, <1>2, <1>3, <1>4, <1>5, <1>6, <1>7, <1>8, <1>9, <1>10, GovernanceSteps
     DEF GovernActions

\* The policies, their sets and rules, and the checks stay well typed.
THEOREM GovernanceTypeCorrect == Spec => []GovernanceTypeOK
<1>1. Init => GovernanceTypeOK
  BY DEF Init, GovernanceInit, GovernanceTypeOK, NoCheck
<1> QED BY <1>1, TypeStep, PTL DEF Spec

----------------------------------------------------------------------------
\* The invariant of the stages.

\* Policies only get stricter: what they hold stays where it is.
Tightened ==
  /\ UNCHANGED <<escalate, check>>
  /\ \A p \in Policy :
       /\ blocked[p] \subseteq blocked'[p]
       /\ deprecated[p] \subseteq deprecated'[p]
       /\ \A i \in DOMAIN rules[p] : i \in DOMAIN rules'[p] /\ rules'[p][i] = rules[p][i]

LEMMA ChangesTighten ==
  ASSUME GovernanceTypeOK, NEW t \in Thread,
         \/ \E p \in Policy \cup {None} : SetGlobalPolicy(t, p)
         \/ \E p \in Policy, type \in Type : AddBlockedType(t, p, type)
         \/ \E p \in Policy, type \in Type : AddDeprecatedType(t, p, type)
         \/ \E p \in Policy, r \in Rule : AddRule(t, p, r)
  PROVE  Tightened
<1>1. CASE \E p \in Policy \cup {None} : SetGlobalPolicy(t, p)
  BY <1>1 DEF SetGlobalPolicy, Tightened
<1>2. CASE \E p \in Policy, type \in Type : AddBlockedType(t, p, type)
  BY <1>2 DEF AddBlockedType, Tightened, GovernanceTypeOK
<1>3. CASE \E p \in Policy, type \in Type : AddDeprecatedType(t, p, type)
  BY <1>3 DEF AddDeprecatedType, Tightened, GovernanceTypeOK
<1>4. CASE \E p \in Policy, r \in Rule : AddRule(t, p, r)
  BY <1>4, OneMoreRule DEF AddRule, Tightened
<1> QED BY <1>1, <1>2, <1>3, <1>4

\* A reason to refuse does not go away.
LEMMA ReasonsStay ==
  ASSUME Tightened, NEW p \in Policy, NEW type, NEW k
  PROVE  /\ RefusedFrom(p, type, k) => RefusedFrom(p, type, k)'
         /\ RefusedByRules(p, type) => RefusedByRules(p, type)'
         /\ Refuses(p, type) => Refuses(p, type)'
<1>1. RefusedFrom(p, type, k) => RefusedFrom(p, type, k)'
  BY DEF Tightened, RefusedFrom
<1>2. RefusedByRules(p, type) => RefusedByRules(p, type)'
  BY DEF Tightened, RefusedByRules
<1>3. Refuses(p, type) => Refuses(p, type)'
  BY <1>2 DEF Tightened, Refuses
<1> QED BY <1>1, <1>2, <1>3

LEMMA TighteningKeeps ==
  ASSUME ChecksInv, Tightened
  PROVE  ChecksInv'
<1> SUFFICES ASSUME NEW t \in Thread, Staged(check[t]) PROVE Pending(check[t])'
  BY DEF ChecksInv, Pending, Staged, Tightened
<1> DEFINE c == check[t]
<1>1. /\ check' = check /\ escalate' = escalate
      /\ Pending(c)
  BY DEF Tightened, ChecksInv
<1>2. c.policy \in Policy /\ c.type \in Type
  BY <1>1 DEF Pending
<1>3. Ahead(c) => Ahead(c)'
  BY <1>1, <1>2, ReasonsStay DEF Ahead, UnknownTo, Tightened
<1>4. c.type \in deprecated[c.policy] => c.type \in deprecated'[c.policy]
  BY <1>2 DEF Tightened
<1> QED BY <1>1, <1>2, <1>3, <1>4 DEF Pending, Staged

LEMMA MovesKeep ==
  ASSUME GovernanceTypeOK, ChecksInv, NEW t \in Thread, NEW c, Moves(t, c), Pending(c)
  PROVE  ChecksInv'
<1> SUFFICES ASSUME NEW u \in Thread PROVE Pending(check[u])'
  BY DEF ChecksInv
<1>1. UNCHANGED <<escalate, globalPolicy, blocked, deprecated, rules>>
  BY DEF Moves
<1>2. CASE u = t
  <2>1. check'[u] = c
    BY <1>2 DEF Moves, GovernanceTypeOK
  <2> QED BY <1>1, <2>1
          DEF Pending, Staged, Ahead, Refuses, RefusedByRules, RefusedFrom, UnknownTo
<1>3. CASE u # t
  <2>1. check'[u] = check[u] /\ Pending(check[u])
    BY <1>3 DEF Moves, GovernanceTypeOK, ChecksInv
  <2> QED BY <1>1, <2>1
          DEF Pending, Staged, Ahead, Refuses, RefusedByRules, RefusedFrom, UnknownTo
<1> QED BY <1>2, <1>3

LEMMA ChecksStep ==
  ASSUME GovernanceTypeOK, ChecksInv, [Next]_vars
  PROVE  ChecksInv'
<1>1. CASE UNCHANGED governanceVars
  BY <1>1 DEF governanceVars, ChecksInv, Pending, Staged, Ahead, Refuses, RefusedByRules,
              RefusedFrom, UnknownTo
<1>2. ASSUME NEW t \in Thread,
             \/ \E p \in Policy \cup {None} : SetGlobalPolicy(t, p)
             \/ \E p \in Policy, type \in Type : AddBlockedType(t, p, type)
             \/ \E p \in Policy, type \in Type : AddDeprecatedType(t, p, type)
             \/ \E p \in Policy, r \in Rule : AddRule(t, p, r)
      PROVE  ChecksInv'
  BY <1>2, ChangesTighten, TighteningKeeps
<1>3. ASSUME NEW t \in Thread, NEW type \in Type, CheckEvent(t, type)
      PROVE  ChecksInv'
  <2> DEFINE c == Begun(type)
  <2>1. Pending(c)
    <3> SUFFICES ASSUME Staged(c) PROVE Pending(c)
      BY DEF Pending
    <3>1. globalPolicy # None /\ globalPolicy \in Policy
      BY DEF Staged, Begun, GovernanceTypeOK
    <3>2. /\ c.at = "blocked" /\ c.policy = globalPolicy /\ c.type = type
          /\ c.rule = 1 /\ c.warned = FALSE
          /\ c.fit = LetThrough(globalPolicy, type) /\ c.due = WarnsOf(globalPolicy, type)
      BY <3>1 DEF Begun
    <3> QED BY <3>1, <3>2 DEF Pending, Ahead, LetThrough, WarnsOf
  <2> QED BY <1>3, <2>1, CheckBegins, MovesKeep
<1>4. ASSUME NEW t \in Thread, CheckBlocked(t) PROVE ChecksInv'
  <2> DEFINE c == check[t]
             d == [c EXCEPT !.at = "deprecated"]
  <2>1. c \in Check /\ Pending(c) /\ c.at = "blocked"
    BY <1>4, StageBlocked DEF GovernanceTypeOK, Check, ChecksInv
  <2>2. Pending([c EXCEPT !.at = "refused"])
    BY <2>1 DEF Pending, Staged, Check
  <2>3. ASSUME c.type \notin blocked[c.policy] PROVE Pending(d)
    <3>1. /\ d.at = "deprecated" /\ d.policy = c.policy /\ d.type = c.type /\ d.fit = c.fit
          /\ d.due = c.due /\ d.rule = c.rule /\ d.warned = c.warned
      BY <2>1 DEF Check
    <3>2. Ahead(c) => Ahead(d)
      BY <2>1, <2>3, <3>1 DEF Ahead, Refuses, UnknownTo
    <3> QED BY <2>1, <3>1, <3>2 DEF Pending, Staged
  <2> QED BY <1>4, <2>2, <2>3, StageBlocked, MovesKeep
<1>5. ASSUME NEW t \in Thread, CheckDeprecated(t) PROVE ChecksInv'
  <2> DEFINE c == check[t]
             warns == c.type \in deprecated[c.policy]
             d == [c EXCEPT !.at = "rules", !.warned = warns]
  <2>1. c \in Check /\ Pending(c) /\ c.at = "deprecated"
    BY Zenon, <1>5, StageDeprecated DEF GovernanceTypeOK, Check, ChecksInv
  <2>2. Pending([c EXCEPT !.at = "refused"])
    BY <2>1 DEF Pending, Staged, Check
  <2>3. ASSUME ~(warns /\ escalate) PROVE Pending(d)
    <3>1. /\ d.at = "rules" /\ d.policy = c.policy /\ d.type = c.type /\ d.fit = c.fit
          /\ d.due = c.due /\ d.rule = 1 /\ d.warned = warns
      BY <2>1 DEF Check, Pending, Staged
    <3>2. c.policy \in Policy /\ c.type \in Type
      BY <2>1 DEF Pending, Staged
    <3>3. RefusedByRules(c.policy, c.type) => RefusedFrom(c.policy, c.type, 1)
      BY <3>2 DEF RefusedByRules, RefusedFrom, GovernanceTypeOK
    <3>4. Ahead(c) => Ahead(d)
      BY <2>1, <2>3, <3>1, <3>3 DEF Ahead
    <3>5. (~c.fit => Ahead(c)) /\ (c.due => warns)
      BY <2>1 DEF Pending, Staged
    <3> QED BY <3>1, <3>2, <3>4, <3>5 DEF Pending, Staged
  <2> QED BY Zenon, <1>5, <2>2, <2>3, StageDeprecated, MovesKeep
<1>6. ASSUME NEW t \in Thread, CheckRule(t) PROVE ChecksInv'
  <2> DEFINE c == check[t]
             d == [c EXCEPT !.rule = @ + 1]
             refused == c.type \in RefusedBy[rules[c.policy][c.rule]]
  <2>1. c \in Check /\ Pending(c) /\ c.at = "rules"
    BY Zenon, <1>6, StageRule DEF GovernanceTypeOK, Check, ChecksInv
  <2>2. Pending([c EXCEPT !.at = "refused"])
    BY <2>1 DEF Pending, Staged, Check
  <2>3. ASSUME ~refused PROVE Pending(d)
    <3>1. /\ d.at = "rules" /\ d.policy = c.policy /\ d.type = c.type /\ d.fit = c.fit
          /\ d.due = c.due /\ d.rule = c.rule + 1 /\ d.warned = c.warned
      BY <2>1 DEF Check
    <3>2. /\ c.policy \in Policy /\ c.rule \in Nat
          /\ rules[c.policy] \in Seq(Rule)
      BY <2>1 DEF Pending, Staged, Check, GovernanceTypeOK
    <3>3. RefusedFrom(c.policy, c.type, c.rule) => RefusedFrom(c.policy, c.type, c.rule + 1)
      BY <2>3, <3>2 DEF RefusedFrom
    <3>4. Ahead(c) => Ahead(d)
      BY <2>1, <3>1, <3>3 DEF Ahead
    <3> QED BY <2>1, <3>1, <3>4 DEF Pending, Staged
  <2> QED BY Zenon, <1>6, <2>2, <2>3, StageRule, MovesKeep
<1>7. ASSUME NEW t \in Thread, CheckUnknown(t) PROVE ChecksInv'
  <2>1. check[t] \in Check
    BY DEF GovernanceTypeOK, Check
  <2>2. \A at \in {"refused", "allowed"} : Pending([check[t] EXCEPT !.at = at])
    BY <2>1 DEF Pending, Staged, Check
  <2> QED BY Zenon, <1>7, <2>2, StageUnknown, MovesKeep
<1> QED BY <1>1, <1>2, <1>3, <1>4, <1>5, <1>6, <1>7, GovernanceSteps DEF GovernActions

LEMMA ChecksInvariant == Spec => []ChecksInv
<1>1. Init => ChecksInv
  BY DEF Init, GovernanceInit, NoCheck, ChecksInv, Pending, Staged
<1>2. GovernanceTypeOK /\ ChecksInv /\ [Next]_vars => ChecksInv'
  BY ChecksStep
<1> QED BY <1>1, <1>2, GovernanceTypeCorrect, PTL DEF Spec

----------------------------------------------------------------------------
\* The refinement.

LetsMap == [p \in Policy |-> {type \in Type : ~Refuses(p, type)}]
CallMap == [t \in Thread |-> Projected(t)]

LEMMA GateState ==
  /\ Gate!vars = <<LetsMap, deprecated, globalPolicy, CallMap>>
  /\ Gate!vars' = <<LetsMap', deprecated', globalPolicy', CallMap'>>
<1> QED BY DEF Gate!vars, LetsMap, CallMap

\* A policy that changes is one that tightens, in Gatekeeper as well.
LEMMA TightenRefines ==
  ASSUME GovernanceTypeOK, GovernanceTypeOK', Tightened, NEW p \in Policy,
         UNCHANGED globalPolicy,
         \A q \in Policy \ {p} : /\ blocked'[q] = blocked[q] /\ deprecated'[q] = deprecated[q]
                                 /\ rules'[q] = rules[q]
  PROVE  Gate!Tighten(p)
<1>1. LetsMap'[p] \subseteq LetsMap[p]
  <2> SUFFICES ASSUME NEW type \in Type, Refuses(p, type) PROVE Refuses(p, type)'
    BY DEF LetsMap
  <2> QED BY ReasonsStay
<1>2. \A q \in Policy \ {p} : LetsMap'[q] = LetsMap[q]
  BY DEF LetsMap, Refuses, RefusedByRules, Tightened
<1>3. LetsMap' = [LetsMap EXCEPT ![p] = LetsMap'[p]]
  BY <1>2 DEF LetsMap
<1>4. deprecated' = [deprecated EXCEPT ![p] = @ \cup deprecated'[p]]
  BY DEF GovernanceTypeOK, Tightened
<1>5. deprecated'[p] \in SUBSET Type
  BY DEF GovernanceTypeOK
<1>6. CallMap' = CallMap
  BY DEF CallMap, Projected, Tightened
<1> QED BY <1>1, <1>3, <1>4, <1>5, <1>6 DEF Gate!Tighten, LetsMap, CallMap

\* What a step of a check does to the mapped state.
LEMMA MovesMap ==
  ASSUME GovernanceTypeOK, NEW t \in Thread, NEW c \in Check, Moves(t, c)
  PROVE  /\ UNCHANGED <<LetsMap, deprecated, globalPolicy>>
         /\ CallMap' = [CallMap EXCEPT ![t] =
              [at |-> IF Staged(c) THEN "pending" ELSE c.at,
               type |-> c.type, policy |-> c.policy, fit |-> c.fit, due |-> c.due,
               warned |-> c.at = "allowed" /\ c.warned]]
<1>1. /\ UNCHANGED <<escalate, globalPolicy, blocked, deprecated, rules>>
      /\ check'[t] = c
      /\ \A u \in Thread \ {t} : check'[u] = check[u]
  BY DEF Moves, GovernanceTypeOK
<1>2. LetsMap' = LetsMap
  BY <1>1 DEF LetsMap, Refuses, RefusedByRules
<1>3. \A u \in Thread \ {t} : CallMap'[u] = CallMap[u]
  BY <1>1 DEF CallMap, Projected
<1>4. CallMap'[t] = [at |-> IF Staged(c) THEN "pending" ELSE c.at,
                     type |-> c.type, policy |-> c.policy, fit |-> c.fit, due |-> c.due,
                     warned |-> c.at = "allowed" /\ c.warned]
  BY Zenon, <1>1 DEF CallMap, Projected, Staged
<1>5. CallMap = [u \in Thread |-> CallMap[u]] /\ CallMap' = [u \in Thread |-> CallMap'[u]]
  BY DEF CallMap
<1> QED BY <1>1, <1>2, <1>3, <1>4, <1>5

\* A stage that lets a check go on is no step of the Gatekeeper.
LEMMA GoesOn ==
  ASSUME GovernanceTypeOK, NEW t \in Thread, NEW c \in Check, Moves(t, c),
         Staged(check[t]), Staged(c),
         c.type = check[t].type, c.policy = check[t].policy,
         c.fit = check[t].fit, c.due = check[t].due
  PROVE  UNCHANGED Gate!vars
<1>1. c.at # "allowed" /\ check[t].at # "allowed"
  BY DEF Staged
<1>2. CallMap[t] = [at |-> "pending", type |-> c.type, policy |-> c.policy,
                    fit |-> c.fit, due |-> c.due, warned |-> FALSE]
  BY <1>1 DEF CallMap, Projected, Staged
<1>3. CallMap' = [CallMap EXCEPT ![t] =
        [at |-> "pending", type |-> c.type, policy |-> c.policy,
         fit |-> c.fit, due |-> c.due, warned |-> FALSE]]
  BY <1>1, MovesMap
<1>4. CallMap' = CallMap
  BY <1>2, <1>3 DEF CallMap
<1> QED BY <1>4, MovesMap, GateState

\* A call that was made, as the Gatekeeper has it.
MadeCall ==
  [at : {"pending", "allowed", "refused"}, type : Type, policy : Policy \cup {None},
   fit : BOOLEAN, due : BOOLEAN, warned : BOOLEAN]

LEMMA SameCall ==
  ASSUME NEW x \in MadeCall, NEW y \in MadeCall,
         x.at = y.at, x.type = y.type, x.policy = y.policy, x.fit = y.fit,
         x.due = y.due, x.warned = y.warned
  PROVE  x = y
<1> QED BY DEF MadeCall

LEMMA CallEnds ==
  ASSUME NEW x \in MadeCall, NEW warned \in BOOLEAN
  PROVE  /\ [x EXCEPT !.at = "refused"] =
              [at |-> "refused", type |-> x.type, policy |-> x.policy, fit |-> x.fit,
               due |-> x.due, warned |-> x.warned]
         /\ [x EXCEPT !.at = "allowed", !.warned = warned] =
              [at |-> "allowed", type |-> x.type, policy |-> x.policy, fit |-> x.fit,
               due |-> x.due, warned |-> warned]
<1> DEFINE y1 == [x EXCEPT !.at = "refused"]
           z1 == [at |-> "refused", type |-> x.type, policy |-> x.policy, fit |-> x.fit,
                  due |-> x.due, warned |-> x.warned]
           y2 == [x EXCEPT !.at = "allowed", !.warned = warned]
           z2 == [at |-> "allowed", type |-> x.type, policy |-> x.policy, fit |-> x.fit,
                  due |-> x.due, warned |-> warned]
<1>1. /\ y1 \in MadeCall /\ y1.at = "refused" /\ y1.type = x.type /\ y1.policy = x.policy
      /\ y1.fit = x.fit /\ y1.due = x.due /\ y1.warned = x.warned
  BY DEF MadeCall
<1>2. /\ y2 \in MadeCall /\ y2.at = "allowed" /\ y2.type = x.type /\ y2.policy = x.policy
      /\ y2.fit = x.fit /\ y2.due = x.due /\ y2.warned = warned
  BY DEF MadeCall
<1>3. /\ z1 \in MadeCall /\ z1.at = "refused" /\ z1.type = x.type /\ z1.policy = x.policy
      /\ z1.fit = x.fit /\ z1.due = x.due /\ z1.warned = x.warned
  BY DEF MadeCall
<1>4. /\ z2 \in MadeCall /\ z2.at = "allowed" /\ z2.type = x.type /\ z2.policy = x.policy
      /\ z2.fit = x.fit /\ z2.due = x.due /\ z2.warned = warned
  BY DEF MadeCall
<1> HIDE DEF y1, y2, z1, z2
<1>5. y1 = z1
  BY <1>1, <1>3, SameCall
<1>6. y2 = z2
  BY <1>2, <1>4, SameCall
<1> QED BY <1>5, <1>6 DEF y1, y2, z1, z2

\* A step that ends a check, as the Gatekeeper has it.
LEMMA EndsMap ==
  ASSUME GovernanceTypeOK, NEW t \in Thread, NEW c \in Check, Moves(t, c),
         c.at \in {"refused", "allowed"}, c.type \in Type,
         NEW y \in MadeCall, y.at = c.at, y.type = c.type, y.policy = c.policy,
         y.fit = c.fit, y.due = c.due, y.warned <=> c.at = "allowed" /\ c.warned
  PROVE  CallMap' = [CallMap EXCEPT ![t] = y]
<1> DEFINE x == [at |-> IF Staged(c) THEN "pending" ELSE c.at,
                 type |-> c.type, policy |-> c.policy, fit |-> c.fit, due |-> c.due,
                 warned |-> c.at = "allowed" /\ c.warned]
<1>1. CallMap' = [CallMap EXCEPT ![t] = x]
  BY MovesMap
<1>2. x.at = c.at
  BY DEF Staged
<1>3. /\ x.type = c.type /\ x.policy = c.policy /\ x.fit = c.fit /\ x.due = c.due
      /\ x.warned <=> c.at = "allowed" /\ c.warned
  OBVIOUS
<1>4. x \in MadeCall
  BY <1>2 DEF MadeCall, Check
<1> HIDE DEF x
<1>5. x.warned \in BOOLEAN /\ y.warned \in BOOLEAN
  BY <1>4 DEF MadeCall
<1>6. x = y
  BY <1>2, <1>3, <1>4, <1>5, SameCall
<1> QED BY <1>1, <1>6

\* A check that is in a stage, as the Gatekeeper has it.
LEMMA StagedCall ==
  ASSUME GovernanceTypeOK, NEW t \in Thread, Staged(check[t]),
         check[t].policy \in Policy, check[t].type \in Type
  PROVE  /\ CallMap[t] \in MadeCall
         /\ CallMap[t].at = "pending" /\ CallMap[t].warned = FALSE
         /\ CallMap[t].type = check[t].type /\ CallMap[t].policy = check[t].policy
         /\ CallMap[t].fit = check[t].fit /\ CallMap[t].due = check[t].due
<1>1. check[t] \in Check /\ check[t].at # "allowed"
  BY DEF GovernanceTypeOK, Check, Staged
<1>2. CallMap[t] = [at |-> "pending", type |-> check[t].type, policy |-> check[t].policy,
                    fit |-> check[t].fit, due |-> check[t].due, warned |-> FALSE]
  BY <1>1 DEF CallMap, Projected, Staged
<1> QED BY <1>1, <1>2 DEF MadeCall, Check

\* A stage that refuses has a reason in the policy.
LEMMA RefusalRefines ==
  ASSUME GovernanceTypeOK, NEW t \in Thread,
         Moves(t, [check[t] EXCEPT !.at = "refused"]),
         Staged(check[t]), check[t].policy \in Policy, check[t].type \in Type,
         Refuses(check[t].policy, check[t].type)
  PROVE  Gate!Refuse(t)
<1> DEFINE c == check[t]
           d == [c EXCEPT !.at = "refused"]
<1>1. c \in Check /\ d \in Check /\ d.at = "refused" /\ ~Staged(d)
      /\ d.type = c.type /\ d.policy = c.policy /\ d.fit = c.fit /\ d.due = c.due
  BY DEF GovernanceTypeOK, Check, Staged
<1>2. /\ CallMap[t] \in MadeCall
      /\ CallMap[t].at = "pending" /\ CallMap[t].warned = FALSE
      /\ CallMap[t].type = c.type /\ CallMap[t].policy = c.policy
      /\ CallMap[t].fit = c.fit /\ CallMap[t].due = c.due
  BY StagedCall
<1>3. CallMap' = [CallMap EXCEPT ![t] =
        [at |-> "refused", type |-> c.type, policy |-> c.policy, fit |-> c.fit,
         due |-> c.due, warned |-> FALSE]]
  <2> DEFINE y == [at |-> "refused", type |-> c.type, policy |-> c.policy, fit |-> c.fit,
                   due |-> c.due, warned |-> FALSE]
  <2>1. /\ y \in MadeCall /\ y.at = d.at /\ y.type = d.type /\ y.policy = d.policy
        /\ y.fit = d.fit /\ y.due = d.due /\ ~y.warned
    BY <1>1 DEF MadeCall, Check
  <2> HIDE DEF y
  <2>2. CallMap' = [CallMap EXCEPT ![t] = y]
    BY <1>1, <2>1, EndsMap
  <2> QED BY <2>2 DEF y
<1>4. CallMap' = [CallMap EXCEPT ![t].at = "refused"]
  <2>1. [CallMap[t] EXCEPT !.at = "refused"] =
          [at |-> "refused", type |-> c.type, policy |-> c.policy, fit |-> c.fit,
           due |-> c.due, warned |-> FALSE]
    BY Zenon, <1>2, CallEnds
  <2> QED BY Zenon, <1>3, <2>1
<1>5. ~Gate!Lets(CallMap[t].policy, CallMap[t].type)
  BY <1>2, GovernanceAssumption DEF Gate!Lets
<1>6. UNCHANGED <<LetsMap, deprecated, globalPolicy>>
  BY <1>1, MovesMap
<1> QED BY <1>2, <1>4, <1>5, <1>6 DEF Gate!Refuse, LetsMap, CallMap

\* One that lets the event pass comes after all reasons, and the warning.
LEMMA PassRefines ==
  ASSUME GovernanceTypeOK, ChecksInv, NEW t \in Thread,
         Moves(t, [check[t] EXCEPT !.at = "allowed"]),
         check[t].at = "rules", ~Remaining(check[t]),
         ~UnknownTo(check[t].policy, check[t].type)
  PROVE  Gate!Allow(t)
<1> DEFINE c == check[t]
           d == [c EXCEPT !.at = "allowed"]
<1>1. c \in Check /\ d \in Check /\ d.at = "allowed" /\ ~Staged(d)
      /\ d.type = c.type /\ d.policy = c.policy /\ d.fit = c.fit /\ d.due = c.due
      /\ d.warned = c.warned
  BY DEF GovernanceTypeOK, Check, Staged
<1>2. Pending(c) /\ Staged(c)
  BY DEF ChecksInv, Staged
<1>3. c.policy \in Policy /\ c.rule \in Nat /\ rules[c.policy] \in Seq(Rule)
  BY <1>1, <1>2 DEF Pending, Check, GovernanceTypeOK
<1>4. c.fit
  <2>1. ~RefusedFrom(c.policy, c.type, c.rule)
    BY <1>3 DEF RefusedFrom, Remaining
  <2> QED BY <1>2, <2>1 DEF Pending, Ahead
<1>5. (c.due => c.warned) /\ (c.warned => c.type \in deprecated[c.policy])
  BY <1>2 DEF Pending
<1>6. /\ CallMap[t] \in MadeCall
      /\ CallMap[t].at = "pending" /\ CallMap[t].warned = FALSE
      /\ CallMap[t].type = c.type /\ CallMap[t].policy = c.policy
      /\ CallMap[t].fit = c.fit /\ CallMap[t].due = c.due
  BY <1>2, StagedCall DEF Pending
<1>7. CallMap' = [CallMap EXCEPT ![t] =
        [at |-> "allowed", type |-> c.type, policy |-> c.policy, fit |-> c.fit,
         due |-> c.due, warned |-> c.warned]]
  <2> DEFINE y == [at |-> "allowed", type |-> c.type, policy |-> c.policy, fit |-> c.fit,
                   due |-> c.due, warned |-> c.warned]
  <2>1. c.type \in Type
    BY <1>2 DEF Pending
  <2>2. /\ y \in MadeCall /\ y.at = d.at /\ y.type = d.type /\ y.policy = d.policy
        /\ y.fit = d.fit /\ y.due = d.due /\ y.warned = d.warned
    BY <1>1, <2>1 DEF MadeCall, Check
  <2> HIDE DEF y
  <2>3. (y.warned <=> d.at = "allowed" /\ d.warned) /\ d.type \in Type
        /\ d.at \in {"refused", "allowed"} /\ Moves(t, d)
    BY Zenon, <1>1, <2>1, <2>2
  <2>4. d \in Check
    BY <1>1
  <2> HIDE DEF d
  <2>5. CallMap' = [CallMap EXCEPT ![t] = y]
    BY ZenonT(60), <2>2, <2>3, <2>4, EndsMap
  <2> QED BY <2>5 DEF y
<1>8. c.warned \in BOOLEAN
  BY <1>1 DEF Check
<1>9. CallMap' = [CallMap EXCEPT ![t].at = "allowed", ![t].warned = c.warned]
  <2>1. [CallMap[t] EXCEPT !.at = "allowed", !.warned = c.warned] =
          [at |-> "allowed", type |-> c.type, policy |-> c.policy, fit |-> c.fit,
           due |-> c.due, warned |-> c.warned]
    BY Zenon, <1>6, <1>8, CallEnds
  <2>2. [CallMap EXCEPT ![t].at = "allowed", ![t].warned = c.warned] =
          [CallMap EXCEPT ![t] = [CallMap[t] EXCEPT !.at = "allowed", !.warned = c.warned]]
    BY DEF CallMap
  <2> QED BY Zenon, <1>7, <2>1, <2>2
<1>10. UNCHANGED <<LetsMap, deprecated, globalPolicy>>
  BY <1>1, MovesMap
<1>11. /\ CallMap[t].at = "pending" /\ CallMap[t].fit
       /\ CallMap[t].due => c.warned
       /\ c.warned => CallMap[t].type \in deprecated[CallMap[t].policy]
  BY <1>4, <1>5, <1>6
<1> QED BY Zenon, <1>9, <1>10, <1>8, <1>11 DEF Gate!Allow, LetsMap, CallMap

LEMMA CallRefines ==
  ASSUME GovernanceTypeOK, NEW t \in Thread, NEW type \in Type, CheckEvent(t, type)
  PROVE  Gate!Call(t, type)
<1> DEFINE c == Begun(type)
<1>1. c \in Check /\ NotChecking(t) /\ Moves(t, c)
  BY BegunType, CheckBegins
<1>2. CallMap[t].at \in Gate!Resting
  BY <1>1 DEF CallMap, Projected, NotChecking, Gate!Resting
<1>3. /\ c.type = type /\ c.policy = globalPolicy /\ c.fit = LetThrough(globalPolicy, type)
      /\ c.due = WarnsOf(globalPolicy, type) /\ c.warned = FALSE
      /\ (IF Staged(c) THEN "pending" ELSE c.at) =
            (IF globalPolicy = None THEN "allowed" ELSE "pending")
  BY DEF Begun, Staged
<1>4. LetThrough(globalPolicy, type) = Gate!Lets(globalPolicy, type)
  BY DEF LetThrough, Gate!Lets, GovernanceTypeOK
<1>5. WarnsOf(globalPolicy, type) = (globalPolicy # None /\ type \in deprecated[globalPolicy])
  BY DEF WarnsOf
<1> DEFINE x == [at |-> IF Staged(c) THEN "pending" ELSE c.at,
                 type |-> c.type, policy |-> c.policy, fit |-> c.fit, due |-> c.due,
                 warned |-> c.at = "allowed" /\ c.warned]
           y == [at |-> IF globalPolicy = None THEN "allowed" ELSE "pending",
                 type |-> type, policy |-> globalPolicy, fit |-> Gate!Lets(globalPolicy, type),
                 due |-> globalPolicy # None /\ type \in deprecated[globalPolicy],
                 warned |-> FALSE]
<1>6. x = y
  <2>1. x \in MadeCall /\ x.warned = FALSE
    BY <1>1, <1>3 DEF MadeCall, Check, GovernanceTypeOK
  <2>2. Gate!Lets(globalPolicy, type) \in BOOLEAN
    BY DEF Gate!Lets
  <2>3. y \in MadeCall
    BY <2>2 DEF MadeCall, GovernanceTypeOK
  <2>4. /\ x.at = y.at /\ x.type = y.type /\ x.policy = y.policy
        /\ x.fit = y.fit /\ x.due = y.due /\ x.warned = y.warned
    BY <1>3, <1>4, <1>5, <2>1
  <2> HIDE DEF x, y
  <2> QED BY <2>1, <2>3, <2>4, SameCall
<1>7. CallMap' = [CallMap EXCEPT ![t] = y]
  <2>1. CallMap' = [CallMap EXCEPT ![t] = x]
    BY <1>1, MovesMap
  <2> HIDE DEF x, y
  <2> QED BY <1>6, <2>1
<1>8. UNCHANGED <<LetsMap, deprecated, globalPolicy>>
  BY <1>1, MovesMap
<1> QED BY Zenon, <1>2, <1>7, <1>8 DEF Gate!Call, LetsMap, CallMap

LEMMA StepRefines ==
  ASSUME GovernanceTypeOK, GovernanceTypeOK', ChecksInv, [Next]_vars
  PROVE  [Gate!Next]_(Gate!vars)
<1>1. CASE UNCHANGED governanceVars
  <2>1. LetsMap' = LetsMap /\ CallMap' = CallMap
    BY <1>1 DEF governanceVars, LetsMap, CallMap, Projected, Refuses, RefusedByRules
  <2> QED BY <1>1, <2>1, GateState DEF governanceVars
<1>2. ASSUME NEW t \in Thread, NEW p \in Policy \cup {None}, SetGlobalPolicy(t, p)
      PROVE  Gate!Next
  <2>1. /\ globalPolicy' = p /\ deprecated' = deprecated
        /\ LetsMap' = LetsMap /\ CallMap' = CallMap
    BY <1>2 DEF SetGlobalPolicy, LetsMap, CallMap, Projected, Refuses, RefusedByRules
  <2>2. Gate!Install(p)
    BY <2>1 DEF Gate!Install, LetsMap, CallMap
  <2> QED BY <2>2 DEF Gate!Next
<1>3. ASSUME NEW t \in Thread, NEW p \in Policy,
             \/ \E type \in Type : AddBlockedType(t, p, type)
             \/ \E type \in Type : AddDeprecatedType(t, p, type)
             \/ \E r \in Rule : AddRule(t, p, r)
      PROVE  Gate!Next
  <2>1. Tightened
    BY <1>3, ChangesTighten
  <2>2. /\ UNCHANGED globalPolicy
        /\ \A q \in Policy \ {p} : /\ blocked'[q] = blocked[q] /\ deprecated'[q] = deprecated[q]
                                   /\ rules'[q] = rules[q]
    BY <1>3 DEF AddBlockedType, AddDeprecatedType, AddRule, GovernanceTypeOK
  <2> QED BY <2>1, <2>2, TightenRefines DEF Gate!Next
<1>4. ASSUME NEW t \in Thread, NEW type \in Type, CheckEvent(t, type) PROVE Gate!Next
  BY <1>4, CallRefines DEF Gate!Next
<1>5. ASSUME NEW t \in Thread, Staged(check[t])
      PROVE  /\ check[t] \in Check
             /\ check[t].policy \in Policy /\ check[t].type \in Type
  BY <1>5 DEF GovernanceTypeOK, Check, ChecksInv, Pending
<1>6. ASSUME NEW t \in Thread, Staged(check[t]),
             Moves(t, [check[t] EXCEPT !.at = "refused"]),
             Refuses(check[t].policy, check[t].type)
      PROVE  Gate!Next
  BY <1>5, <1>6, RefusalRefines DEF Gate!Next
<1>7. ASSUME NEW t \in Thread, CheckBlocked(t) PROVE [Gate!Next]_(Gate!vars)
  <2> DEFINE c == check[t]
             d == [c EXCEPT !.at = "deprecated"]
  <2>1. Staged(c)
    BY <1>7, StageBlocked DEF Staged
  <2>2. c.type \in blocked[c.policy] => Refuses(c.policy, c.type)
    BY DEF Refuses
  <2>3. /\ d \in Check /\ Staged(d) /\ d.type = c.type /\ d.policy = c.policy
        /\ d.fit = c.fit /\ d.due = c.due
    BY <1>5, <2>1 DEF Check, Staged
  <2>4. Moves(t, d) => UNCHANGED Gate!vars
    BY <2>1, <2>3, GoesOn
  <2> QED BY Zenon, <1>6, <1>7, <2>1, <2>2, <2>4, StageBlocked
<1>8. ASSUME NEW t \in Thread, CheckDeprecated(t) PROVE [Gate!Next]_(Gate!vars)
  <2> DEFINE c == check[t]
             warns == c.type \in deprecated[c.policy]
             d == [c EXCEPT !.at = "rules", !.warned = warns]
  <2>1. Staged(c)
    BY Zenon, <1>8, StageDeprecated DEF Staged
  <2>2. warns /\ escalate => Refuses(c.policy, c.type)
    BY DEF Refuses
  <2>3. /\ d \in Check /\ Staged(d) /\ d.type = c.type /\ d.policy = c.policy
        /\ d.fit = c.fit /\ d.due = c.due
    <3>1. \A b \in BOOLEAN : LET e == [c EXCEPT !.at = "rules", !.warned = b] IN
            /\ e \in Check /\ Staged(e) /\ e.type = c.type /\ e.policy = c.policy
            /\ e.fit = c.fit /\ e.due = c.due
      BY <1>5, <2>1 DEF Check, Staged
    <3>2. warns \in BOOLEAN
      OBVIOUS
    <3> QED BY Zenon, <3>1, <3>2
  <2>4. Moves(t, d) => UNCHANGED Gate!vars
    BY Zenon, <2>1, <2>3, GoesOn
  <2> QED BY Zenon, <1>6, <1>8, <2>1, <2>2, <2>4, StageDeprecated
<1>9. ASSUME NEW t \in Thread, CheckRule(t) PROVE [Gate!Next]_(Gate!vars)
  <2> DEFINE c == check[t]
             d == [c EXCEPT !.rule = @ + 1]
  <2>1. Staged(c) /\ Remaining(c)
    BY Zenon, <1>9, StageRule DEF Staged
  <2>2. c.rule \in DOMAIN rules[c.policy]
    BY <1>5, <2>1 DEF Remaining, Check, GovernanceTypeOK
  <2>3. c.type \in RefusedBy[rules[c.policy][c.rule]] => Refuses(c.policy, c.type)
    BY <2>2 DEF Refuses, RefusedByRules
  <2>4. c.rule + 1 \in Nat \ {0}
    BY <1>5, <2>1 DEF Check
  <2>5. /\ d \in Check /\ Staged(d) /\ d.type = c.type /\ d.policy = c.policy
        /\ d.fit = c.fit /\ d.due = c.due
    BY <1>5, <2>1, <2>4 DEF Check, Staged
  <2>6. Moves(t, d) => UNCHANGED Gate!vars
    BY <2>1, <2>5, GoesOn
  <2> QED BY Zenon, <1>6, <1>9, <2>1, <2>3, <2>6, StageRule
<1>10. ASSUME NEW t \in Thread, CheckUnknown(t) PROVE [Gate!Next]_(Gate!vars)
  <2> DEFINE c == check[t]
  <2>1. /\ c.at = "rules" /\ Staged(c)
        /\ ~Remaining(c)
    BY Zenon, <1>10, StageUnknown DEF Staged
  <2>2. UnknownTo(c.policy, c.type) => Refuses(c.policy, c.type)
    BY DEF Refuses, UnknownTo
  <2>3. ~UnknownTo(c.policy, c.type) /\ Moves(t, [c EXCEPT !.at = "allowed"]) => Gate!Allow(t)
    BY <2>1, PassRefines
  <2>4. Gate!Allow(t) => Gate!Next
    BY DEF Gate!Next
  <2>5. \/ UnknownTo(c.policy, c.type) /\ Moves(t, [c EXCEPT !.at = "refused"])
        \/ ~UnknownTo(c.policy, c.type) /\ Moves(t, [c EXCEPT !.at = "allowed"])
    BY Zenon, <1>10, StageUnknown
  <2> QED BY Zenon, <1>6, <1>10, <2>1, <2>2, <2>3, <2>4, StageUnknown
<1> QED BY <1>1, <1>2, <1>3, <1>4, <1>7, <1>8, <1>9, <1>10, GovernanceSteps DEF GovernActions

\* The staged check of a policy that other threads install, replace and make
\* stricter meanwhile implements the one decision of Gatekeeper.
THEOREM ChecksAreDecisions == Spec => ImplementsGatekeeper
<1>1. Init => Gate!Init
  <2> SUFFICES ASSUME Init PROVE Gate!Init
    OBVIOUS
  <2>1. LetsMap \in [Policy -> SUBSET Type]
    BY DEF LetsMap
  <2>2. deprecated \in [Policy -> SUBSET Type] /\ globalPolicy \in Policy \cup {None}
    BY DEF Init, GovernanceInit
  <2>3. CallMap = [t \in Thread |-> [at |-> "idle", type |-> None, policy |-> None,
                                    fit |-> TRUE, due |-> FALSE, warned |-> FALSE]]
    BY DEF Init, GovernanceInit, NoCheck, CallMap, Projected
  <2> QED BY <2>1, <2>2, <2>3 DEF Gate!Init, LetsMap, CallMap
<1>2. GovernanceTypeOK /\ GovernanceTypeOK' /\ ChecksInv /\ [Next]_vars
        => [Gate!Next]_(Gate!vars)
  BY StepRefines
<1> QED BY <1>1, <1>2, GovernanceTypeCorrect, ChecksInvariant, PTL
        DEF Spec, ImplementsGatekeeper, Gate!Spec

----------------------------------------------------------------------------
\* The registries.

ReportRecord ==
  [at : {"none", "empty", "listed", "ok", "incompatible"},
   listed : Seq(Record), bad : SUBSET Record, cleared : BOOLEAN]
WarningRecord ==
  [at : {"none", "silent", "got", "shown"}, type : Spelling \cup {Nothing},
   notice : 0 .. marks, since : 0 .. marks]

RegistryActions(t) ==
  \/ \E tool \in Tool, version \in Version : Register(t, tool, version)
  \/ CheckConsumers(t)
  \/ ClearConsumers(t)
  \/ \E s \in Spelling : MarkDeprecated(t, s)
  \/ \E s \in Spelling : RemoveNotice(t, s)
  \/ \E s \in Spelling : GetNotice(t, s)
  \/ ClearNotices(t)
  \/ ReportConsumers(t)
  \/ ShowNotice(t)

\* The policies leave the registries alone; a client is a thread.
LEMMA RegistrySteps ==
  [Next]_vars => (\E t \in Client : RegistryActions(t)) \/ UNCHANGED registryVars
<1> SUFFICES ASSUME [Next]_vars
             PROVE  (\E t \in Client : RegistryActions(t)) \/ UNCHANGED registryVars
  OBVIOUS
<1>1. CASE UNCHANGED vars
  BY <1>1 DEF vars
<1>2. ASSUME NEW t \in Thread, Govern(t) PROVE UNCHANGED registryVars
  BY <1>2 DEF Govern
<1>3. ASSUME NEW t \in Thread, Consult(t) PROVE RegistryActions(t)
  BY <1>3 DEF Consult, RegistryActions
<1>4. ASSUME NEW t \in Thread, Finish(t)
      PROVE  RegistryActions(t) \/ UNCHANGED registryVars
  BY <1>4 DEF Finish, RegistryActions
<1> QED BY <1>1, <1>2, <1>3, <1>4, SingletonsAssumption DEF Next

LEMMA IncompatibleType ==
  ASSUME records \in Seq(Record)
  PROVE  Incompatible \in SUBSET Record
<1> QED BY DEF Incompatible, ToSet

LEMMA ReportEnds ==
  ASSUME NEW x \in ReportRecord, NEW S \in SUBSET Record, NEW at \in {"ok", "incompatible"}
  PROVE  [x EXCEPT !.bad = S, !.at = at] \in ReportRecord
<1> QED BY DEF ReportRecord

LEMMA RegistriesStep == RegistriesTypeOK /\ [Next]_vars => RegistriesTypeOK'
<1> SUFFICES ASSUME RegistriesTypeOK, [Next]_vars PROVE RegistriesTypeOK'
  OBVIOUS
<1> USE DEF RegistriesTypeOK
<1>1. CASE UNCHANGED registryVars
  BY <1>1 DEF registryVars
<1>2. ASSUME NEW t \in Client, NEW tool \in Tool, NEW version \in Version,
             Register(t, tool, version)
      PROVE  RegistriesTypeOK'
  <2>1. [tool |-> tool, version |-> version] \in Record
    BY DEF Record
  <2> QED BY <1>2, <2>1 DEF Register
<1>3. ASSUME NEW t \in Client, CheckConsumers(t) PROVE RegistriesTypeOK'
  <2>1. PICK at \in {"empty", "listed"} :
          report' = [report EXCEPT ![t] =
            [at |-> at, listed |-> records, bad |-> {}, cleared |-> FALSE]]
    BY <1>3 DEF CheckConsumers
  <2>2. [at |-> at, listed |-> records, bad |-> {}, cleared |-> FALSE] \in ReportRecord
    BY DEF ReportRecord
  <2>3. report' \in [Client -> ReportRecord]
    BY <2>1, <2>2 DEF ReportRecord
  <2> QED BY <1>3, <2>3 DEF CheckConsumers, ReportRecord
<1>4. ASSUME NEW t \in Client, ClearConsumers(t) PROVE RegistriesTypeOK'
  <2>1. \A u \in Client : [report[u] EXCEPT !.cleared = TRUE] \in ReportRecord
    BY DEF ReportRecord
  <2> QED BY <1>4, <2>1 DEF ClearConsumers, ReportRecord
<1>5. ASSUME NEW t \in Client, NEW s \in Spelling, MarkDeprecated(t, s)
      PROVE  RegistriesTypeOK'
  <2>1. marks' = marks + 1 /\ marks' \in Nat /\ 0 .. marks \subseteq 0 .. marks'
        /\ marks' \in 0 .. marks'
    BY <1>5 DEF MarkDeprecated
  <2>2. notices' \in [Spelling -> 0 .. marks']
    BY <1>5, <2>1, RegistriesAssumption DEF MarkDeprecated
  <2>3. WarningRecord \subseteq WarningRecord'
    BY <2>1 DEF WarningRecord
  <2> QED BY <1>5, <2>1, <2>2, <2>3 DEF MarkDeprecated, WarningRecord
<1>6. ASSUME NEW t \in Client, NEW s \in Spelling, RemoveNotice(t, s)
      PROVE  RegistriesTypeOK'
  BY <1>6 DEF RemoveNotice
<1>7. ASSUME NEW t \in Client, NEW s \in Spelling, GetNotice(t, s)
      PROVE  RegistriesTypeOK'
  BY <1>7 DEF GetNotice
<1>8. ASSUME NEW t \in Client, ClearNotices(t) PROVE RegistriesTypeOK'
  BY <1>8 DEF ClearNotices
<1>9. ASSUME NEW t \in Client, ReportConsumers(t) PROVE RegistriesTypeOK'
  <2>1. PICK at \in {"ok", "incompatible"} :
          at = IF Incompatible = {} THEN "ok" ELSE "incompatible"
    OBVIOUS
  <2>2. report' = [report EXCEPT ![t] = [@ EXCEPT !.bad = Incompatible, !.at = at]]
    BY Zenon, <1>9, <2>1 DEF ReportConsumers
  <2>3. [report[t] EXCEPT !.bad = Incompatible, !.at = at] \in ReportRecord
    <3>1. report[t] \in ReportRecord /\ Incompatible \in SUBSET Record
      BY IncompatibleType DEF ReportRecord
    <3> QED BY <3>1, ReportEnds
  <2>4. report' \in [Client -> ReportRecord]
    BY <2>2, <2>3 DEF ReportRecord
  <2> QED BY <1>9, <2>4 DEF ReportConsumers, ReportRecord
<1>10. ASSUME NEW t \in Client, ShowNotice(t) PROVE RegistriesTypeOK'
  <2>1. [warning[t] EXCEPT !.at = "shown"] \in WarningRecord
    BY DEF WarningRecord
  <2> QED BY <1>10, <2>1 DEF ShowNotice, WarningRecord
<1> QED
  BY <1>1, <1>2, <1>3, <1>4, <1>5, <1>6, <1>7, <1>8, <1>9, <1>10, RegistrySteps
     DEF RegistryActions

\* The records, notices and reports stay well typed.
THEOREM RegistriesTypeCorrect == Spec => []RegistriesTypeOK
<1>1. Init => RegistriesTypeOK
  BY DEF Init, RegistriesInit, RegistriesTypeOK, NoReport, NoWarning
<1> QED BY <1>1, RegistriesStep, PTL DEF Spec

CallsInv == calls \in 0 .. MaxCalls

\* Every variable of Singletons stays well typed, and within the bound.
THEOREM TypeCorrect == Spec => []TypeOK
<1>1. Init => CallsInv
  BY SingletonsAssumption DEF Init, CallsInv
<1>2. CallsInv /\ [Next]_vars => CallsInv'
  <2>1. calls \in 0 .. MaxCalls /\ calls < MaxCalls /\ calls' = calls + 1
          => calls' \in 0 .. MaxCalls
    BY SingletonsAssumption
  <2>2. [Next]_vars => (calls < MaxCalls /\ calls' = calls + 1) \/ calls' = calls
    BY Zenon DEF Next, Govern, Consult, Finish, Calls, vars
  <2> QED BY <2>1, <2>2 DEF CallsInv
<1>3. GovernanceTypeOK /\ RegistriesTypeOK /\ CallsInv <=> TypeOK
  BY DEF TypeOK, CallsInv
<1> QED BY <1>1, <1>2, <1>3, GovernanceTypeCorrect, RegistriesTypeCorrect, PTL DEF Spec

\* Until the registry is cleared, what all() listed stays in it: the second
\* acquisition of the lock compares every consumer that the first one counted.
ListedStays ==
  \A t \in Client :
    (report[t].at = "listed" /\ ~report[t].cleared)
      => ToSet(report[t].listed) \subseteq ToSet(records)

LEMMA ReportStep ==
  ASSUME RegistriesTypeOK, ListedStays, ReportSound, [Next]_vars
  PROVE  ListedStays' /\ ReportSound'
<1> DEFINE R(t) == /\ (report[t].at = "listed" /\ ~report[t].cleared)
                         => ToSet(report[t].listed) \subseteq ToSet(records)
                   /\ ~report[t].cleared =>
                        LET wrong == {r \in ToSet(report[t].listed) : ~Compatible(r.version)}
                        IN  /\ report[t].at = "ok" => wrong = {}
                            /\ report[t].at = "incompatible" => wrong \subseteq report[t].bad
<1> SUFFICES ASSUME NEW u \in Client PROVE R(u)'
  BY DEF ListedStays, ReportSound
<1>0. R(u) /\ report[u] \in ReportRecord
  BY DEF ListedStays, ReportSound, RegistriesTypeOK, ReportRecord
<1>1. CASE UNCHANGED <<records, report>>
  BY <1>0, <1>1
<1>2. ASSUME NEW t \in Client, NEW tool \in Tool, NEW version \in Version,
             Register(t, tool, version)
      PROVE  R(u)'
  <2>1. ToSet(records) \subseteq ToSet(records')
    <3> DEFINE e == [tool |-> tool, version |-> version]
    <3>1. records \in Seq(Record) /\ e \in Record /\ records' = Append(records, e)
      BY <1>2 DEF Register, RegistriesTypeOK, Record
    <3> HIDE DEF e
    <3>2. \A i \in DOMAIN records : i \in DOMAIN records' /\ records'[i] = records[i]
      BY <3>1
    <3> QED BY <3>2 DEF ToSet
  <2>2. report' = report
    BY <1>2 DEF Register
  <2> QED BY <1>0, <2>1, <2>2
<1>3. ASSUME NEW t \in Client, CheckConsumers(t) PROVE R(u)'
  <2>1. CASE u = t
    <3>1. /\ report'[u].at \in {"empty", "listed"} /\ report'[u].listed = records
          /\ records' = records
      BY <1>3, <2>1 DEF CheckConsumers, RegistriesTypeOK
    <3> QED BY <3>1
  <2>2. CASE u # t
    <3>1. report'[u] = report[u] /\ records' = records
      BY <1>3, <2>2 DEF CheckConsumers, RegistriesTypeOK
    <3> QED BY <1>0, <3>1
  <2> QED BY <2>1, <2>2
<1>4. ASSUME NEW t \in Client, ClearConsumers(t) PROVE R(u)'
  <2>1. report'[u] = [report[u] EXCEPT !.cleared = TRUE]
    BY <1>4 DEF ClearConsumers
  <2>2. report'[u].cleared
    BY <1>0, <2>1 DEF ReportRecord
  <2> QED BY <2>2
<1>5. ASSUME NEW t \in Client, ReportConsumers(t) PROVE R(u)'
  <2>1. CASE u = t
    <3>1. /\ report[u].at = "listed" /\ records' = records
          /\ report'[u].at = IF Incompatible = {} THEN "ok" ELSE "incompatible"
          /\ report'[u].bad = Incompatible
          /\ report'[u].listed = report[u].listed
          /\ report'[u].cleared = report[u].cleared
      BY <1>0, <1>5, <2>1 DEF ReportConsumers, RegistriesTypeOK, ReportRecord
    <3>2. ToSet(report[u].listed) \subseteq ToSet(records) =>
            {r \in ToSet(report[u].listed) : ~Compatible(r.version)} \subseteq Incompatible
      BY DEF Incompatible
    <3> QED BY <1>0, <3>1, <3>2
  <2>2. CASE u # t
    <3>1. report'[u] = report[u] /\ records' = records
      BY <1>5, <2>2 DEF ReportConsumers, RegistriesTypeOK
    <3> QED BY <1>0, <3>1
  <2> QED BY <2>1, <2>2
<1>6. ASSUME NEW t \in Client,
             \/ \E s \in Spelling : MarkDeprecated(t, s) \/ RemoveNotice(t, s) \/ GetNotice(t, s)
             \/ ClearNotices(t) \/ ShowNotice(t)
      PROVE  UNCHANGED <<records, report>>
  BY <1>6 DEF MarkDeprecated, RemoveNotice, GetNotice, ClearNotices, ShowNotice
<1>7. CASE UNCHANGED registryVars
  BY <1>1, <1>7 DEF registryVars
<1> QED
  BY <1>1, <1>2, <1>3, <1>4, <1>5, <1>6, <1>7, RegistrySteps DEF RegistryActions

\* "All N consumers are compatible" is true of the N that were counted, and a
\* counted consumer that is not is reported, unless the registry was cleared.
THEOREM ReportIsSound == Spec => []ReportSound
<1>1. Init => ListedStays /\ ReportSound
  BY DEF Init, RegistriesInit, NoReport, ListedStays, ReportSound
<1>2. RegistriesTypeOK /\ ListedStays /\ ReportSound /\ [Next]_vars
        => ListedStays' /\ ReportSound'
  BY ReportStep
<1> QED BY <1>1, <1>2, RegistriesTypeCorrect, PTL DEF Spec
=============================================================================
