------------------------- MODULE VerifyChainProofs -------------------------
(* Proofs about the verify_chain() loop, for every honest chain, every      *)
(* sequence of records and every key map.                                   *)
EXTENDS VerifyChain, FiniteSetTheorems, TLAPS

LEMMA FilesType ==
  ASSUME events \in Files
  PROVE  /\ Len(events) \in Nat
         /\ DOMAIN events = 1..Len(events)
         /\ \A n \in 1..Len(events) : events[n] \in Record
<1>1. PICK m \in 0..MaxLen : events \in [1..m -> Record]
  BY DEF Files
<1>2. m \in Nat /\ DOMAIN events = 1..m
  BY <1>1, ChainAssumption
<1>3. Len(events) = m
  BY <1>2
<1> QED BY <1>1, <1>2, <1>3

\* The type invariant of the loop holds in every reachable state.
THEOREM TypeCorrect == Spec => []TypeOK
<1>1. Init => TypeOK
  BY FilesType, ChainAssumption DEF Init, TypeOK
<1>2. TypeOK /\ [Next]_vars => TypeOK'
  <2> SUFFICES ASSUME TypeOK, [Next]_vars PROVE TypeOK'
    OBVIOUS
  <2> USE DEF TypeOK, input
  <2>1. CASE Reject
    BY <2>1 DEF Reject
  <2>2. CASE Begin
    BY <2>2 DEF Begin
  <2>3. CASE Escape
    BY <2>3 DEF Escape
  <2>4. CASE Check
    <3>1. events[i] \in Record /\ events[i].id \in Id /\ Len(events) \in Nat
      BY <2>4, FilesType, ChainAssumption DEF Check
    <3>2. tampered_count' \in 0..i /\ i' \in 1..(Len(events) + 1) /\ i' = i + 1
      BY <2>4, <3>1 DEF Check
    <3>3. first_tampered' \in Id \cup {None}
      BY <2>4, <3>1 DEF Check
    <3>4. gaps' \in Seq(Id) /\ Len(gaps') <= i
      BY <2>4, <3>1 DEF Check
    <3>5. current_secret' \in Secret \cup Blank
      BY <2>4, <3>1, ChainAssumption DEF Check
    <3> QED BY <2>4, <3>1, <3>2, <3>3, <3>4, <3>5 DEF Check
  <2>5. CASE Finish
    BY <2>5 DEF Finish
  <2>6. CASE UNCHANGED vars
    BY <2>6 DEF vars
  <2> QED BY <2>1, <2>2, <2>3, <2>4, <2>5, <2>6 DEF Next
<1> QED BY <1>1, <1>2, PTL DEF Spec

-----------------------------------------------------------------------------
\* Only one event can be the last that switched the key.
LEMMA LastSwitchUnique ==
  ASSUME NEW es, NEW km, NEW n \in Nat, NEW j1, NEW j2,
         LastSwitch(es, km, n, j1), LastSwitch(es, km, n, j2)
  PROVE  j1 = j2
<1>1. j1 \in 1..(n - 1) /\ j2 \in 1..(n - 1)
  BY DEF LastSwitch
<1>2. CASE j1 < j2
  <2>1. j2 \in (j1 + 1)..(n - 1)
    BY <1>1, <1>2
  <2> QED BY <2>1 DEF LastSwitch
<1>3. CASE j2 < j1
  <2>1. j1 \in (j2 + 1)..(n - 1)
    BY <1>1, <1>3
  <2> QED BY <2>1 DEF LastSwitch
<1> QED BY <1>1, <1>2, <1>3

\* The signature at n verifies exactly when it does under the key in force.
LEMMA KeyDecides ==
  ASSUME NEW es, NEW s, NEW km, NEW n \in Nat, NEW key,
         InForce(es, s, km, n, key)
  PROVE  VerifiesAt(es, s, km, n) <=> Verify(es[n], key)
<1>1. CASE NoSwitch(es, km, n) /\ key = s
  <2>1. \A j : ~LastSwitch(es, km, n, j)
    BY <1>1 DEF NoSwitch, LastSwitch
  <2> QED BY <1>1, <2>1 DEF VerifiesAt
<1>2. CASE \E j \in 1..(n - 1) : LastSwitch(es, km, n, j) /\ key = km[es[j].id]
  <2>1. PICK j \in 1..(n - 1) : LastSwitch(es, km, n, j) /\ key = km[es[j].id]
    BY <1>2
  <2>2. ~NoSwitch(es, km, n)
    BY <2>1 DEF NoSwitch, LastSwitch
  <2>3. \A jj \in 1..(n - 1) : LastSwitch(es, km, n, jj) => jj = j
    BY <2>1, LastSwitchUnique
  <2> QED BY <2>1, <2>2, <2>3 DEF VerifiesAt
<1> QED BY <1>1, <1>2 DEF InForce

\* The loop's assignment to current_secret keeps the key in force.
LEMMA KeyStep ==
  ASSUME NEW es, NEW s, NEW km, NEW n \in Nat \ {0}, NEW key,
         InForce(es, s, km, n, key)
  PROVE  InForce(es, s, km, n + 1,
                 IF es[n].id \in DOMAIN km THEN km[es[n].id] ELSE key)
<1>1. /\ (n + 1) - 1 = n
      /\ n \in 1..n
      /\ \A k \in 1..n : k \in 1..(n - 1) \/ k = n
      /\ \A k \in 1..(n - 1) : k \in 1..n
      /\ (n + 1)..n = {}
  OBVIOUS
<1>2. CASE es[n].id \in DOMAIN km
  <2>1. LastSwitch(es, km, n + 1, n)
    BY <1>1, <1>2 DEF LastSwitch
  <2> QED BY <1>1, <1>2, <2>1 DEF InForce
<1>3. CASE es[n].id \notin DOMAIN km
  <2>1. NoSwitch(es, km, n) => NoSwitch(es, km, n + 1)
    BY <1>1, <1>3 DEF NoSwitch
  <2>2. ASSUME NEW j \in 1..(n - 1), LastSwitch(es, km, n, j)
        PROVE  LastSwitch(es, km, n + 1, j)
    <3>1. \A k \in (j + 1)..n : k \in (j + 1)..(n - 1) \/ k = n
      OBVIOUS
    <3> QED BY <1>1, <1>3, <2>2, <3>1 DEF LastSwitch
  <2> QED BY <1>1, <1>3, <2>1, <2>2 DEF InForce
<1> QED BY <1>2, <1>3

-----------------------------------------------------------------------------
(***************************************************************************)
(* The inductive invariant: before iteration i the loop holds the key in   *)
(* force at i, its counters say whether everything before i verified and   *)
(* linked, and if so everything before i was signed by the stream, and is  *)
(* the beginning of the honest chain as far as no event repeats.  The last *)
(* conjunct is the induction that makes this claim hold: a record that     *)
(* verifies is an honest record, and the link to its predecessor says      *)
(* which one, unless the predecessor was appended twice.                   *)
(***************************************************************************)
Running == pc \in {"loop", "done"}

Progress ==
  Running =>
    /\ org_secret \in Secret
    /\ \A x \in DOMAIN key_map : key_map[x] \in Secret
    /\ current_secret \in Secret
    /\ InForce(events, org_secret, key_map, i, current_secret)
    /\ pc = "done" => i = Len(events) + 1

Counted ==
  Running =>
    /\ tampered_count = 0 <=>
         \A n \in 1..(i - 1) : VerifiesAt(events, org_secret, key_map, n)
    /\ Len(gaps) = 0 <=> \A n \in 1..(i - 1) : LinkedAt(events, n)

\* No event before position n is one that the stream was given again.
Plain(n) == \A m \in 1..(n - 1) : ~Repeated(events[m].id)

Matched ==
  Running /\ valid =>
    \A n \in 1..(i - 1) :
      /\ \E m \in 1..Len(Honest) : Covered(events[n]) = Covered(Honest[m])
      /\ Plain(n) =>
           n \in 1..Len(Honest) /\ Covered(events[n]) = Covered(Honest[n])

Fresh ==
  pc = "start" => /\ i = 1
                  /\ current_secret = org_secret
                  /\ tampered_count = 0
                  /\ gaps = <<>>

Inv == TypeOK /\ Fresh /\ Progress /\ Counted /\ Matched

\* A record that verifies says what some honest record says.
LEMMA VerifiedIsHonest ==
  ASSUME NEW r \in Record, NEW s \in Secret, Verify(r, s)
  PROVE  \E n \in 1..Len(Honest) : Covered(r) = Covered(Honest[n])
<1>1. PICK n \in 1..Len(Honest) : r.signature = Honest[n].signature
  BY UnforgedAssumption
<1>2. PICK t \in Secret : Verify(Honest[n], t)
  BY HonestAssumption
<1>3. /\ r.signature = Signature(r.id, r.checksum, r.prev_id, s)
      /\ r.checksum = Checksum(r.payload)
      /\ Honest[n].signature =
           Signature(Honest[n].id, Honest[n].checksum, Honest[n].prev_id, t)
      /\ Honest[n].checksum = Checksum(Honest[n].payload)
  BY <1>2 DEF Verify
<1>4. Signature(r.id, r.checksum, r.prev_id, s) =
        Signature(Honest[n].id, Honest[n].checksum, Honest[n].prev_id, t)
  BY <1>1, <1>3
<1>5. /\ r.id = Honest[n].id
      /\ r.checksum = Honest[n].checksum
      /\ r.prev_id = Honest[n].prev_id
  BY <1>4 DEF Signature
<1>6. r.payload = Honest[n].payload
  BY <1>3, <1>5 DEF Checksum
<1> QED BY <1>5, <1>6 DEF Covered

LEMMA CheckStep ==
  ASSUME Inv, TypeOK', Check
  PROVE  Inv'
<1> DEFINE good == Verify(events[i], current_secret)
<1>1. /\ TypeOK /\ pc = "loop" /\ i \in Nat \ {0} /\ i \in 1..Len(events)
      /\ Running /\ Running'
      /\ i' = i + 1 /\ (i + 1) - 1 = i
      /\ Len(events) \in Nat
      /\ events[i] \in Record /\ events[i].id \in Id
      /\ events' = events /\ org_secret' = org_secret /\ key_map' = key_map
      /\ pc' = "loop"
  BY FilesType, ChainAssumption DEF Inv, TypeOK, Check, Running, input
<1>2. /\ org_secret \in Secret /\ current_secret \in Secret
      /\ \A x \in DOMAIN key_map : key_map[x] \in Secret
      /\ InForce(events, org_secret, key_map, i, current_secret)
  BY <1>1 DEF Inv, Progress
<1>3. current_secret' = IF events[i].id \in DOMAIN key_map
                        THEN key_map[events[i].id] ELSE current_secret
  BY DEF Check
<1>4. Progress'
  <2>1. InForce(events, org_secret, key_map, i + 1, current_secret')
    BY <1>1, <1>2, <1>3, KeyStep
  <2>2. current_secret' \in Secret
    BY <1>2, <1>3
  <2> QED BY <1>1, <1>2, <2>1, <2>2 DEF Progress
<1>5. VerifiesAt(events, org_secret, key_map, i) <=> good
  BY <1>1, <1>2, KeyDecides
<1>6. \A n \in 1..((i + 1) - 1) : n \in 1..(i - 1) \/ n = i
  BY <1>1
<1>7. \A n \in 1..(i - 1) : n \in 1..((i + 1) - 1)
  BY <1>1
<1>8. i \in 1..((i + 1) - 1)
  BY <1>1
<1>9. /\ tampered_count' = IF good THEN tampered_count ELSE tampered_count + 1
      /\ gaps' = IF LinkedAt(events, i) THEN gaps ELSE Append(gaps, events[i].id)
  BY DEF Check
<1>10. /\ tampered_count \in Nat /\ Len(gaps) \in Nat
       /\ tampered_count' = 0 <=> tampered_count = 0 /\ good
       /\ Len(gaps') = 0 <=> Len(gaps) = 0 /\ LinkedAt(events, i)
  <2>1. tampered_count \in Nat /\ gaps \in Seq(Id)
    BY <1>1 DEF TypeOK
  <2>2. Len(Append(gaps, events[i].id)) = Len(gaps) + 1
    BY <1>1, <2>1
  <2> QED BY <1>9, <2>1, <2>2
<1>11. Counted'
  <2>1. tampered_count = 0 <=>
          \A n \in 1..(i - 1) : VerifiesAt(events, org_secret, key_map, n)
    BY <1>1 DEF Inv, Counted
  <2>2. Len(gaps) = 0 <=> \A n \in 1..(i - 1) : LinkedAt(events, n)
    BY <1>1 DEF Inv, Counted
  <2>3. tampered_count' = 0 <=>
          \A n \in 1..((i + 1) - 1) : VerifiesAt(events, org_secret, key_map, n)
    BY <1>5, <1>6, <1>7, <1>8, <1>10, <2>1
  <2>4. Len(gaps') = 0 <=> \A n \in 1..((i + 1) - 1) : LinkedAt(events, n)
    BY <1>6, <1>7, <1>8, <1>10, <2>2
  <2> QED BY <1>1, <2>3, <2>4 DEF Counted
<1>12. Matched'
  <2> SUFFICES ASSUME valid', NEW n \in 1..((i + 1) - 1)
               PROVE  /\ \E m \in 1..Len(Honest) :
                           Covered(events[n]) = Covered(Honest[m])
                      /\ Plain(n) => /\ n \in 1..Len(Honest)
                                     /\ Covered(events[n]) = Covered(Honest[n])
    BY <1>1 DEF Matched, Covered, Plain, Repeated
  <2>1. valid /\ good /\ LinkedAt(events, i)
    BY <1>10 DEF valid
  <2>2. \A m \in 1..(i - 1) :
          /\ \E j \in 1..Len(Honest) : Covered(events[m]) = Covered(Honest[j])
          /\ Plain(m) => m \in 1..Len(Honest) /\ Covered(events[m]) = Covered(Honest[m])
    BY <1>1, <2>1 DEF Inv, Matched
  <2>3. PICK m \in 1..Len(Honest) : Covered(events[i]) = Covered(Honest[m])
    BY <1>1, <1>2, <2>1, VerifiedIsHonest
  <2>4. /\ events[i].id = Honest[m].id /\ events[i].prev_id = Honest[m].prev_id
        /\ Honest[m].prev_id = IF m = 1 THEN None ELSE Honest[m - 1].id
        /\ m = 1 \/ m - 1 \in 1..Len(Honest)
    BY <2>3, HonestAssumption DEF Covered
  <2>5. ASSUME Plain(i)
        PROVE  m = i
    <3>1. CASE i = 1
      <4>1. Honest[m].prev_id = None
        BY <2>1, <2>4, <3>1 DEF LinkedAt
      <4>2. m # 1 => Honest[m - 1].id \in Id
        BY <2>4, HonestAssumption
      <4> QED BY <2>4, <3>1, <4>1, <4>2, ChainAssumption
    <3>2. CASE i # 1
      <4>1. i - 1 \in 1..(i - 1) /\ Plain(i - 1)
        BY <1>1, <2>5, <3>2 DEF Plain
      <4>2. i - 1 \in 1..Len(Honest) /\ events[i - 1].id = Honest[i - 1].id
        BY <2>2, <4>1 DEF Covered
      <4>3. Honest[m].prev_id = Honest[i - 1].id
        BY <2>1, <2>4, <3>2, <4>2 DEF LinkedAt
      <4>4. m # 1
        BY <2>4, <4>2, <4>3, HonestAssumption, ChainAssumption
      <4>5. ~Repeated(Honest[i - 1].id)
        BY <2>5, <4>1, <4>2 DEF Plain
      <4>6. m - 1 = i - 1
        BY <2>4, <4>2, <4>3, <4>4, <4>5 DEF Repeated
      <4> QED BY <1>1, <4>6
    <3> QED BY <3>1, <3>2
  <2> QED BY <1>6, <2>2, <2>3, <2>5
<1> QED BY <1>1, <1>4, <1>11, <1>12 DEF Inv, Fresh

LEMMA Invariance == Spec => []Inv
<1>1. Init => Inv
  <2> SUFFICES ASSUME Init PROVE Inv
    OBVIOUS
  <2>1. TypeOK
    BY FilesType, ChainAssumption DEF Init, TypeOK
  <2>2. ~Running
    BY DEF Init, Running
  <2>3. Fresh
    BY DEF Init, Fresh
  <2> QED BY <2>1, <2>2, <2>3 DEF Inv, Progress, Counted, Matched
<1>2. Inv /\ TypeOK' /\ [Next]_vars => Inv'
  <2> SUFFICES ASSUME Inv, TypeOK', [Next]_vars PROVE Inv'
    OBVIOUS
  <2>1. CASE Reject \/ Escape
    <3>1. ~Running' /\ pc' = "raised"
      BY <2>1 DEF Reject, Escape, Running
    <3> QED BY <3>1 DEF Inv, Fresh, Progress, Counted, Matched
  <2>2. CASE Begin
    <3>1. /\ i' = 1 /\ 1..(1 - 1) = {}
          /\ current_secret' = org_secret' /\ tampered_count' = 0 /\ gaps' = <<>>
          /\ pc' = "loop"
          /\ org_secret' \in Secret
          /\ \A x \in DOMAIN key_map' : key_map'[x] \in Secret
      BY <2>2 DEF Begin, Inv, Fresh, input
    <3>2. InForce(events', org_secret', key_map', 1, org_secret')
      BY <3>1 DEF InForce, NoSwitch
    <3>3. Progress'
      BY <3>1, <3>2 DEF Progress
    <3>4. Counted' /\ Matched' /\ Fresh'
      BY <3>1 DEF Counted, Matched, Fresh
    <3> QED BY <3>3, <3>4 DEF Inv
  <2>3. CASE Check
    BY <2>3, CheckStep
  <2>4. CASE Finish
    <3>1. Running /\ Running' /\ valid' = valid
      BY <2>4 DEF Finish, Running, valid
    <3> QED BY <2>4, <3>1
            DEF Finish, Inv, Fresh, Progress, Counted, Matched, input, Covered,
                Plain, Repeated
  <2>5. CASE UNCHANGED vars
    BY <2>5 DEF vars, Inv, Fresh, Progress, Counted, Matched, Running, valid, Covered,
                Plain, Repeated
  <2> QED BY <2>1, <2>2, <2>3, <2>4, <2>5 DEF Next
<1> QED BY <1>1, <1>2, TypeCorrect, PTL DEF Spec

-----------------------------------------------------------------------------
\* verify_chain() reports valid exactly when every signature verifies under
\* the key in force at its position and every event links to the one before.
THEOREM VerdictIsSound == Spec => []ValidIsValid
<1>1. Inv => ValidIsValid
  <2> SUFFICES ASSUME Inv, pc = "done"
               PROVE  valid <=> Valid(events, org_secret, key_map)
    BY DEF ValidIsValid
  <2>1. /\ Len(events) \in Nat /\ DOMAIN events = 1..Len(events)
        /\ i - 1 = Len(events)
    BY FilesType DEF Inv, TypeOK, Progress, Running
  <2>2. /\ tampered_count = 0 <=>
             \A n \in DOMAIN events : VerifiesAt(events, org_secret, key_map, n)
        /\ Len(gaps) = 0 <=> \A n \in DOMAIN events : LinkedAt(events, n)
    BY <2>1 DEF Inv, Counted, Running
  <2>3. Tampered(events, org_secret, key_map) = {} <=>
          \A n \in DOMAIN events : VerifiesAt(events, org_secret, key_map, n)
    BY DEF Tampered
  <2>4. Gaps(events) = {} <=> \A n \in DOMAIN events : LinkedAt(events, n)
    BY DEF Gaps
  <2> QED BY <2>2, <2>3, <2>4 DEF valid, Valid
<1> QED BY <1>1, Invariance, PTL

\* Whatever storage returns, a chain that verify_chain() calls valid holds only
\* what the stream signed, in the positions where it was signed until after the
\* first event that the application had appended twice; a stream without such
\* events has no valid chain but its own beginnings.
THEOREM ValidChainIsHonest == Spec => []ValidMeansSigned
<1>1. Inv => ValidMeansSigned
  <2> SUFFICES ASSUME Inv, pc = "done", valid, NEW n \in DOMAIN events
               PROVE  /\ \E m \in DOMAIN Honest : Covered(events[n]) = Covered(Honest[m])
                      /\ (\A m \in 1..(n - 1) : ~Repeated(events[m].id)) =>
                           /\ n <= Len(Honest)
                           /\ Covered(events[n]) = Covered(Honest[n])
    BY DEF ValidMeansSigned
  <2>1. n \in 1..(i - 1)
    BY FilesType DEF Inv, TypeOK, Progress, Running
  <2>2. /\ \E m \in 1..Len(Honest) : Covered(events[n]) = Covered(Honest[m])
        /\ Plain(n) => n \in 1..Len(Honest) /\ Covered(events[n]) = Covered(Honest[n])
    BY <2>1 DEF Inv, Matched, Running
  <2> QED BY <2>2, HonestAssumption DEF Plain
<1> QED BY <1>1, Invariance, PTL

-----------------------------------------------------------------------------
(***************************************************************************)
(* The verdict itself.  Before iteration i the loop has counted the        *)
(* positions before i that fail, holds the id of the first of them, and    *)
(* the ids of the positions with a gap in the order of the chain.          *)
(***************************************************************************)
TamperedBefore(n) == {m \in 1..(n - 1) : ~VerifiesAt(events, org_secret, key_map, m)}

GapsBefore(n) == {m \in 1..(n - 1) : ~LinkedAt(events, m)}

FirstNamed(S, first) ==
  \/ S = {} /\ first = None
  \/ \E m \in S : (\A n \in S : m <= n) /\ first = events[m].id

\* g names the positions in S, in their order.
Lists(g, S) ==
  /\ Len(g) = Cardinality(S)
  /\ \E order \in [1..Len(g) -> S] :
       /\ \A m, n \in 1..Len(g) : m < n => order[m] < order[n]
       /\ g = [n \in 1..Len(g) |-> events[order[n]].id]

Tallied ==
  /\ pc = "start" => first_tampered = None
  /\ Running =>
       /\ tampered_count = Cardinality(TamperedBefore(i))
       /\ FirstNamed(TamperedBefore(i), first_tampered)
       /\ Lists(gaps, GapsBefore(i))

\* What one iteration adds to the positions that fail.
LEMMA OneMore ==
  ASSUME NEW n \in Nat \ {0}, NEW S, S \subseteq 1..(n - 1)
  PROVE  /\ IsFiniteSet(S) /\ Cardinality(S) \in Nat
         /\ n \notin S /\ \A m \in S : m \in Nat /\ m < n
         /\ Cardinality(S \cup {n}) = Cardinality(S) + 1
<1>1. IsFiniteSet(1..(n - 1))
  BY FS_Interval
<1>2. IsFiniteSet(S)
  BY <1>1, FS_Subset
<1>3. n \notin S /\ \A m \in S : m \in Nat /\ m < n
  OBVIOUS
<1> QED BY <1>2, <1>3, FS_CardinalityType, FS_AddElement

\* The next gap is appended.
LEMMA ListsMore ==
  ASSUME NEW n \in Nat \ {0}, NEW S, S \subseteq 1..(n - 1), NEW g, g \in Seq(Id),
         Lists(g, S), events[n].id \in Id
  PROVE  Lists(Append(g, events[n].id), S \cup {n})
<1> DEFINE len == Len(g)
           more == Append(g, events[n].id)
<1>1. PICK order \in [1..len -> S] :
        /\ \A m, k \in 1..len : m < k => order[m] < order[k]
        /\ g = [k \in 1..len |-> events[order[k]].id]
  BY DEF Lists
<1>2. /\ len \in Nat /\ DOMAIN g = 1..len /\ Len(more) = len + 1 /\ more \in Seq(Id)
      /\ DOMAIN more = 1..(len + 1)
      /\ more[len + 1] = events[n].id /\ \A k \in 1..len : more[k] = g[k]
  OBVIOUS
<1>3. \A m \in S : m \in Nat /\ m < n
  BY OneMore
<1> HIDE DEF len, more
<1> DEFINE next == [k \in 1..(len + 1) |-> IF k = len + 1 THEN n ELSE order[k]]
<1>4. /\ \A k \in 1..(len + 1) : k \in 1..len \/ k = len + 1
      /\ \A k \in 1..len : k \in 1..(len + 1) /\ k # len + 1 /\ k < len + 1
      /\ len + 1 \in 1..(len + 1)
  BY <1>2
<1>5. next \in [1..(len + 1) -> S \cup {n}]
  BY <1>4
<1>6. next[len + 1] = n /\ \A k \in 1..len : next[k] = order[k] /\ order[k] \in S
  BY <1>4
<1> HIDE DEF next
<1>7. \A m, k \in 1..(len + 1) : m < k => next[m] < next[k]
  <2> SUFFICES ASSUME NEW m \in 1..(len + 1), NEW k \in 1..(len + 1), m < k
               PROVE  next[m] < next[k]
    OBVIOUS
  <2>1. m \in 1..len
    BY <1>2
  <2>2. CASE k \in 1..len
    BY <1>1, <1>6, <2>1, <2>2
  <2>3. CASE k = len + 1
    BY <1>3, <1>6, <2>1, <2>3
  <2> QED BY <1>4, <2>2, <2>3
<1>8. more = [k \in 1..(len + 1) |-> events[next[k]].id]
  <2>1. \A k \in 1..(len + 1) : more[k] = events[next[k]].id
    <3> SUFFICES ASSUME NEW k \in 1..(len + 1) PROVE more[k] = events[next[k]].id
      OBVIOUS
    <3>1. CASE k \in 1..len
      <4>1. g[k] = events[order[k]].id
        BY <1>1, <3>1
      <4> QED BY <1>2, <1>6, <3>1, <4>1
    <3>2. CASE k = len + 1
      BY <1>2, <1>6, <3>2
    <3> QED BY <1>4, <3>1, <3>2
  <2> QED BY <1>2, <2>1
<1>9. Len(more) = Cardinality(S \cup {n})
  <2>1. len = Cardinality(S)
    BY DEF Lists, len
  <2>2. Cardinality(S \cup {n}) = Cardinality(S) + 1
    BY OneMore
  <2> QED BY <1>2, <2>1, <2>2
<1> QED BY <1>2, <1>5, <1>7, <1>8, <1>9 DEF Lists, more

LEMMA TallyStep ==
  ASSUME Inv, Tallied, Check PROVE Tallied'
<1> DEFINE good == Verify(events[i], current_secret)
<1>1. /\ pc = "loop" /\ i \in Nat \ {0} /\ Running
      /\ i' = i + 1 /\ pc' = pc /\ events' = events
      /\ org_secret' = org_secret /\ key_map' = key_map
      /\ events[i].id \in Id /\ gaps \in Seq(Id) /\ tampered_count \in Nat
      /\ first_tampered \in Id \cup {None}
  BY FilesType, ChainAssumption DEF Inv, TypeOK, Check, Running, input
<1>2. VerifiesAt(events, org_secret, key_map, i) <=> good
  BY <1>1, KeyDecides DEF Inv, Progress
<1>3. /\ tampered_count' = IF good THEN tampered_count ELSE tampered_count + 1
      /\ first_tampered' = IF good \/ first_tampered # None
                           THEN first_tampered ELSE events[i].id
      /\ gaps' = IF LinkedAt(events, i) THEN gaps ELSE Append(gaps, events[i].id)
  BY DEF Check
<1>4. \A n : n \in 1..((i + 1) - 1) <=> n \in 1..(i - 1) \/ n = i
  BY <1>1
<1> DEFINE T == TamperedBefore(i)
           G == GapsBefore(i)
<1>5. /\ T \subseteq 1..(i - 1) /\ G \subseteq 1..(i - 1)
      /\ TamperedBefore(i)' = IF good THEN T ELSE T \cup {i}
      /\ GapsBefore(i)' = IF LinkedAt(events, i) THEN G ELSE G \cup {i}
  BY <1>1, <1>2, <1>4 DEF TamperedBefore, GapsBefore
<1>6. tampered_count = Cardinality(T) /\ FirstNamed(T, first_tampered) /\ Lists(gaps, G)
  BY <1>1 DEF Tallied
<1> HIDE DEF good, T, G
<1>7. tampered_count' = Cardinality(TamperedBefore(i)')
  BY <1>1, <1>3, <1>5, <1>6, OneMore
<1>8. FirstNamed(TamperedBefore(i), first_tampered)'
  <2>1. CASE good
    BY <1>1, <1>3, <1>5, <1>6, <2>1 DEF FirstNamed
  <2>2. CASE ~good /\ T = {}
    <3>1. first_tampered' = events[i].id /\ TamperedBefore(i)' = {i}
      BY <1>3, <1>5, <1>6, <2>2 DEF FirstNamed
    <3> QED BY <1>1, <3>1 DEF FirstNamed
  <2>3. CASE ~good /\ T # {}
    <3>1. PICK m \in T : (\A n \in T : m <= n) /\ first_tampered = events[m].id
      BY <1>6, <2>3 DEF FirstNamed
    <3>2. m \in DOMAIN events /\ events[m].id \in Id
      <4>1. m \in 1..Len(events)
        BY <1>1, <1>5, FilesType DEF Inv, TypeOK
      <4> QED BY <4>1, FilesType, ChainAssumption DEF Inv, TypeOK
    <3>3. first_tampered' = events[m].id
      BY <1>3, <3>1, <3>2, ChainAssumption
    <3>4. m <= i
      BY <1>1, <1>5, OneMore
    <3>5. TamperedBefore(i)' = T \cup {i}
      BY <1>5, <2>3
    <3> QED BY <1>1, <3>1, <3>3, <3>4, <3>5 DEF FirstNamed
  <2> QED BY <2>1, <2>2, <2>3
<1>9. Lists(gaps, GapsBefore(i))'
  <2>1. Lists(Append(gaps, events[i].id), G \cup {i})
    BY <1>1, <1>5, <1>6, ListsMore
  <2>2. Lists(gaps', GapsBefore(i)')
    BY <1>3, <1>5, <1>6, <2>1
  <2> QED BY <1>1, <2>2 DEF Lists
<1> QED BY <1>1, <1>7, <1>8, <1>9 DEF Tallied

LEMMA TallyInvariance == Spec => []Tallied
<1>1. Init => Tallied
  BY DEF Init, Tallied, Running
<1>2. Inv /\ Tallied /\ [Next]_vars => Tallied'
  <2> SUFFICES ASSUME Inv, Tallied, [Next]_vars PROVE Tallied'
    OBVIOUS
  <2>1. CASE Reject \/ Escape
    BY <2>1 DEF Reject, Escape, Tallied, Running
  <2>2. CASE Begin
    <3>1. /\ i' = 1 /\ 1..(1 - 1) = {} /\ tampered_count' = 0 /\ gaps' = <<>>
          /\ first_tampered' = None /\ pc' = "loop"
      BY <2>2 DEF Begin, Inv, Fresh, Tallied
    <3>2. TamperedBefore(i)' = {} /\ GapsBefore(i)' = {}
      BY <3>1 DEF TamperedBefore, GapsBefore
    <3>3. Cardinality({}) = 0
      BY FS_EmptySet
    <3>4. Lists(gaps, GapsBefore(i))'
      <4> DEFINE order == [n \in {} |-> n]
      <4>1. Len(gaps') = 0 /\ 1..0 = {} /\ order \in [1..0 -> {}]
        BY <3>1
      <4>2. gaps' = [n \in 1..0 |-> events'[order[n]].id]
        BY <3>1, <4>1
      <4> QED BY <3>2, <3>3, <4>1, <4>2 DEF Lists
    <3> QED BY <3>1, <3>2, <3>3, <3>4 DEF Tallied, FirstNamed
  <2>3. CASE Check
    BY <2>3, TallyStep
  <2>4. CASE Finish \/ UNCHANGED vars
    <3>1. /\ UNCHANGED <<events, org_secret, key_map, i, first_tampered, gaps, tampered_count>>
          /\ (Running' <=> Running) /\ (pc' = "start" <=> pc = "start")
      BY <2>4 DEF Finish, vars, input, Running
    <3> QED BY <3>1 DEF Tallied, TamperedBefore, GapsBefore, FirstNamed, Lists
  <2> QED BY <2>1, <2>2, <2>3, <2>4 DEF Next
<1> QED BY <1>1, <1>2, Invariance, PTL DEF Spec

\* The loop computes the declarative verdict: how many signatures fail, which
\* event is the first of them, and which links are broken, in the order of the
\* chain (signing.py:369-398).
THEOREM LoopVerdictHolds == Spec => []LoopVerdict
<1>1. Inv /\ Tallied => LoopVerdict
  <2> SUFFICES ASSUME Inv, Tallied, pc = "done" PROVE LoopVerdict
    BY DEF LoopVerdict
  <2> DEFINE T == Tampered(events, org_secret, key_map)
             G == Gaps(events)
  <2>1. Len(events) \in Nat /\ DOMAIN events = 1..Len(events) /\ i - 1 = Len(events)
    BY FilesType DEF Inv, TypeOK, Progress, Running
  <2>2. TamperedBefore(i) = T /\ GapsBefore(i) = G
    BY <2>1 DEF TamperedBefore, GapsBefore, Tampered, Gaps
  <2>3. tampered_count = Cardinality(T) /\ FirstNamed(T, first_tampered) /\ Lists(gaps, G)
    BY <2>2 DEF Tallied, Running
  <2>4. T \subseteq 1..Len(events)
    BY <2>1 DEF Tampered
  <2> HIDE DEF T, G
  <2>5. first_tampered = IF T = {} THEN None ELSE events[Min(T)].id
    <3>1. CASE T # {}
      <4>1. PICK m \in T : (\A n \in T : m <= n) /\ first_tampered = events[m].id
        BY <2>3, <3>1 DEF FirstNamed
      <4>2. Min(T) \in T /\ \A n \in T : Min(T) <= n
        BY <4>1 DEF Min
      <4>3. Min(T) = m
        <5>1. Min(T) <= m /\ m <= Min(T)
          BY <4>1, <4>2
        <5>2. m \in 1..Len(events) /\ Min(T) \in 1..Len(events)
          BY <2>4, <4>1, <4>2
        <5> HIDE DEF Min
        <5>3. \A a, b \in 1..Len(events) : a <= b /\ b <= a => a = b
          BY <2>1
        <5> QED BY <5>1, <5>2, <5>3
      <4> QED BY <3>1, <4>1, <4>3
    <3> QED BY <2>3, <3>1 DEF FirstNamed
  <2>6. PICK order \in [1..Cardinality(G) -> G] :
          /\ \A m, n \in 1..Cardinality(G) : m < n => order[m] < order[n]
          /\ gaps = [n \in 1..Cardinality(G) |-> events[order[n]].id]
    BY <2>3 DEF Lists
  <2> QED BY <2>3, <2>5, <2>6 DEF LoopVerdict, T, G
<1> QED BY <1>1, Invariance, TallyInvariance, PTL
=============================================================================
