------------------------- MODULE AuditStreamProofs -------------------------
(* Proofs about AuditStream, for every set of ids, keys and payloads.      *)
EXTENDS AuditStream, TLAPS

\* An appended event does not change which key is in force at the positions
\* up to its own, provided the key map did not change for the events there.
LEMMA InForceBefore ==
  ASSUME NEW es, es \in Seq(Stored), NEW e, NEW km, NEW km2, NEW s, NEW key,
         NEW i \in 1..(Len(es) + 1),
         \A k \in 1..Len(es) :
           /\ es[k].id \in DOMAIN km2 <=> es[k].id \in DOMAIN km
           /\ es[k].id \in DOMAIN km => km2[es[k].id] = km[es[k].id]
  PROVE  InForce(Append(es, e), s, km2, i, key) <=> InForce(es, s, km, i, key)
<1> DEFINE n == Len(es)
           es2 == Append(es, e)
<1>1. n \in Nat /\ \A k \in 1..n : es2[k] = es[k]
  OBVIOUS
<1>2. \A k \in 1..(i - 1) : k \in 1..n
  BY <1>1
<1>3. \A k \in 1..(i - 1) :
        /\ es2[k].id \in DOMAIN km2 <=> es[k].id \in DOMAIN km
        /\ es[k].id \in DOMAIN km => km2[es2[k].id] = km[es[k].id]
  BY <1>1, <1>2
<1> HIDE DEF n, es2
<1>4. NoSwitch(es2, km2, i) <=> NoSwitch(es, km, i)
  BY <1>3 DEF NoSwitch
<1>5. \A j \in 1..(i - 1) :
        LastSwitch(es2, km2, i, j) <=> LastSwitch(es, km, i, j)
  <2> TAKE j \in 1..(i - 1)
  <2>1. \A k \in (j + 1)..(i - 1) : k \in 1..(i - 1)
    BY <1>1
  <2> QED BY <1>3, <2>1 DEF LastSwitch
<1>6. InForce(es2, s, km2, i, key) <=> InForce(es, s, km, i, key)
  <2>1. \A j \in 1..(i - 1) :
          LastSwitch(es, km, i, j) => km2[es2[j].id] = km[es[j].id]
    BY <1>3 DEF LastSwitch
  <2> QED BY <1>4, <1>5, <2>1 DEF InForce
<1> QED BY <1>6 DEF es2

\* After an event that is not in the key map the key stays what it was.
LEMMA InForceAfterPlain ==
  ASSUME NEW es, es \in Seq(Stored), NEW e, NEW km, NEW s, NEW key,
         e.id \notin DOMAIN km,
         InForce(es, s, km, Len(es) + 1, key)
  PROVE  InForce(Append(es, e), s, km, Len(es) + 2, key)
<1> DEFINE n == Len(es)
           es2 == Append(es, e)
<1>1. /\ n \in Nat
      /\ \A k \in 1..n : es2[k] = es[k]
      /\ es2[n + 1] = e
  OBVIOUS
<1>2. /\ (n + 1) - 1 = n /\ (n + 2) - 1 = n + 1
      /\ \A k \in 1..(n + 1) : k \in 1..n \/ k = n + 1
      /\ \A k \in 1..n : k \in 1..(n + 1)
  BY <1>1
<1> HIDE DEF n, es2
<1>3. CASE NoSwitch(es, km, n + 1) /\ key = s
  <2>1. NoSwitch(es2, km, n + 2)
    BY <1>1, <1>2, <1>3 DEF NoSwitch
  <2> QED BY <1>3, <2>1 DEF InForce, n, es2
<1>4. CASE \E j \in 1..n : LastSwitch(es, km, n + 1, j) /\ key = km[es[j].id]
  <2>1. PICK j \in 1..n : LastSwitch(es, km, n + 1, j) /\ key = km[es[j].id]
    BY <1>4
  <2>2. \A k \in (j + 1)..(n + 1) : k \in (j + 1)..n \/ k = n + 1
    BY <1>1
  <2>3. LastSwitch(es2, km, n + 2, j)
    <3>1. \A k \in (j + 1)..n : k \in 1..n
      BY <1>1
    <3>2. j \in 1..(n + 1) /\ es2[j] = es[j]
      BY <1>1, <1>2
    <3>3. \A k \in (j + 1)..(n + 1) : es2[k].id \notin DOMAIN km
      BY <1>1, <1>2, <2>1, <2>2, <3>1 DEF LastSwitch
    <3> QED BY <1>2, <2>1, <3>2, <3>3 DEF LastSwitch
  <2>4. key = km[es2[j].id]
    BY <1>1, <2>1
  <2>5. \E jj \in 1..(n + 1) : LastSwitch(es2, km, n + 2, jj) /\ key = km[es2[jj].id]
    BY <1>2, <2>3, <2>4
  <2> QED BY <1>2, <2>5 DEF InForce, n, es2
<1> QED BY <1>2, <1>3, <1>4 DEF InForce, n

\* After an event of the key map the key is the one the map gives for it.
LEMMA InForceAfterSwitch ==
  ASSUME NEW es, es \in Seq(Stored), NEW e, NEW km, NEW s,
         e.id \in DOMAIN km
  PROVE  InForce(Append(es, e), s, km, Len(es) + 2, km[e.id])
<1> DEFINE n == Len(es)
           es2 == Append(es, e)
<1>1. n \in Nat /\ es2[n + 1] = e
  OBVIOUS
<1>2. (n + 2) - 1 = n + 1 /\ n + 1 \in 1..(n + 1) /\ ((n + 1) + 1)..(n + 1) = {}
  BY <1>1
<1> HIDE DEF n, es2
<1>3. LastSwitch(es2, km, n + 2, n + 1)
  BY <1>1, <1>2 DEF LastSwitch
<1> QED BY <1>1, <1>2, <1>3 DEF InForce, n, es2

-----------------------------------------------------------------------------
LEMMA SignedType ==
  ASSUME TypeOK, NEW id \in Id, NEW prev \in Id \cup {None}, NEW s \in Secret,
         content[id] \in Serialisable
  PROVE  /\ Signed(id, prev, s) \in Stored
         /\ Signed(id, prev, s).id = id
         /\ Signed(id, prev, s).payload = id
         /\ Signed(id, prev, s).prev_id = prev
         /\ Signed(id, prev, s).checksum = Checksum(content[id])
         /\ Signed(id, prev, s).signature =
              Signature(id, Checksum(content[id]), prev, s)
BY DEF Signed, SignObject, Stored

LEMMA LastIdType ==
  ASSUME TypeOK PROVE LastId \in Id \cup {None}
<1>1. CASE events = <<>>
  BY <1>1 DEF LastId
<1>2. CASE events # <<>>
  <2>1. Len(events) \in DOMAIN events
    BY <1>2 DEF TypeOK
  <2>2. events[Len(events)] \in Stored
    BY <2>1 DEF TypeOK
  <2> QED BY <1>2, <2>2 DEF LastId, Stored
<1> QED BY <1>1, <1>2

\* The type invariant of the audit stream holds in every reachable state.
THEOREM TypeCorrect == Spec => []TypeOK
<1>1. Init => TypeOK
  BY StreamAssumption DEF Init, TypeOK, EmptyMap, Results
<1>2. TypeOK /\ [Next]_vars => TypeOK'
  <2> SUFFICES ASSUME TypeOK, [Next]_vars PROVE TypeOK'
    OBVIOUS
  <2>1. ASSUME NEW id \in Id, AppendEvent(id) PROVE TypeOK'
    <3>1. Signed(id, LastId, org_secret) \in Stored
      BY <2>1, LastIdType, SignedType DEF AppendEvent, TypeOK
    <3> QED BY <2>1, <3>1, StreamAssumption DEF AppendEvent, TypeOK, Results
  <2>2. ASSUME NEW id \in Id, AppendRaises(id) PROVE TypeOK'
    BY <2>2 DEF AppendRaises, TypeOK, Results
  <2>3. ASSUME NEW id \in RotationId, NEW s \in Secret, RotateKey(id, s)
        PROVE  TypeOK'
    <3>1. id \in Id /\ content[id] \in Serialisable
      BY StreamAssumption DEF TypeOK, Id
    <3>2. Signed(id, LastId, org_secret) \in Stored
      BY <3>1, LastIdType, SignedType DEF TypeOK
    <3>3. /\ DOMAIN key_map' \subseteq RotationId
          /\ \A r \in DOMAIN key_map' : key_map'[r] \in Secret
      BY <2>3 DEF RotateKey, Bind, TypeOK
    <3>4. /\ events' \in Seq(Stored) /\ Len(events') <= MaxEvents
      BY <2>3, <3>2, StreamAssumption DEF RotateKey, TypeOK
    <3> QED BY <2>3, <3>3, <3>4 DEF RotateKey, TypeOK, Results
  <2>4. ASSUME NEW s \in Blank, RotateBlank(s) PROVE TypeOK'
    BY <2>4 DEF RotateBlank, TypeOK, Results
  <2>5. ASSUME NEW s \in Secret, RotateRaises(s) PROVE TypeOK'
    BY <2>5 DEF RotateRaises, TypeOK, Results
  <2>6. ASSUME NEW id \in CallerId, NEW p \in Payload, Mutate(id, p)
        PROVE  TypeOK'
    <3>1. \A r \in RotationId : content'[r] = content[r]
      BY <2>6, StreamAssumption DEF Mutate, TypeOK, Id
    <3>2. content' \in [Id -> Payload]
      BY <2>6 DEF Mutate, TypeOK, Id
    <3> QED BY <2>6, <3>1, <3>2 DEF Mutate, TypeOK
  <2>7. CASE UNCHANGED vars
    BY <2>7 DEF vars, TypeOK
  <2> QED BY <2>1, <2>2, <2>3, <2>4, <2>5, <2>6, <2>7 DEF Next
<1> QED BY <1>1, <1>2, PTL DEF Spec

-----------------------------------------------------------------------------
(***************************************************************************)
(* The inductive invariant.  Every event links to the one before it, and,  *)
(* while no rotation event is in the stream twice, every event carries the *)
(* signature of the key the verifier will hold when it reaches it, and the *)
(* next event will be signed with the key the verifier will hold then.     *)
(***************************************************************************)
Linked ==
  \A i \in DOMAIN events :
    /\ events[i].prev_id = IF i = 1 THEN None ELSE events[i - 1].id
    /\ events[i].payload = events[i].id

SignedInForce ==
  RotationOnce =>
    \A i \in DOMAIN events :
      \E key \in Secret :
        /\ InForce(events, initial_secret, key_map, i, key)
        /\ events[i].signature = Signature(events[i].id, events[i].checksum,
                                           events[i].prev_id, key)

\* Every rotation event of the stream is in the key map.
RotationsMapped ==
  \A i \in DOMAIN events :
    events[i].id \in RotationId => events[i].id \in DOMAIN key_map

Inv == TypeOK /\ Linked /\ SignedInForce /\ RotationsMapped /\ KeyAgreement

\* The steps that touch neither the log nor a key.
LEMMA QuietStep ==
  ASSUME Inv, TypeOK',
         UNCHANGED <<events, initial_secret, org_secret, key_map>>
  PROVE  Inv'
BY DEF Inv, Linked, SignedInForce, RotationsMapped, KeyAgreement, RotationOnce

LEMMA LinkedStep ==
  ASSUME TypeOK, Linked, NEW id \in Id, NEW s \in Secret,
         content[id] \in Serialisable,
         events' = Append(events, Signed(id, LastId, s))
  PROVE  Linked'
<1> DEFINE n == Len(events)
           e == Signed(id, LastId, s)
<1>1. /\ n \in Nat
      /\ DOMAIN events = 1..n
      /\ DOMAIN events' = 1..(n + 1)
      /\ \A i \in 1..n : events'[i] = events[i]
      /\ events'[n + 1] = e
  <2>1. e \in Stored
    BY LastIdType, SignedType
  <2> QED BY <2>1 DEF TypeOK
<1>2. e.prev_id = LastId /\ e.payload = id /\ e.id = id
  BY LastIdType, SignedType
<1>3. LastId = IF n = 0 THEN None ELSE events[n].id
  BY DEF LastId, TypeOK
<1> HIDE DEF n, e
<1>4. ASSUME NEW i \in DOMAIN events'
      PROVE  /\ events'[i].prev_id = IF i = 1 THEN None ELSE events'[i - 1].id
             /\ events'[i].payload = events'[i].id
  <2>1. CASE i \in 1..n
    <3>1. i = 1 \/ i - 1 \in 1..n
      BY <1>1, <2>1
    <3> QED BY <1>1, <2>1, <3>1 DEF Linked
  <2>2. CASE i = n + 1
    <3>1. n = 0 \/ (i - 1 = n /\ n \in 1..n)
      BY <1>1, <2>2
    <3>2. n = 0 <=> i = 1
      BY <1>1, <2>2
    <3> QED BY <1>1, <1>2, <1>3, <2>2, <3>1, <3>2
  <2> QED BY <1>1, <2>1, <2>2
<1> QED BY <1>4 DEF Linked

\* The shape of the log after one more event: used by the steps below.
LEMMA AppendShape ==
  ASSUME TypeOK, NEW id \in Id, content[id] \in Serialisable,
         events' = Append(events, Signed(id, LastId, org_secret))
  PROVE  /\ Len(events) \in Nat
         /\ DOMAIN events = 1..Len(events)
         /\ DOMAIN events' = 1..(Len(events) + 1)
         /\ Len(events') = Len(events) + 1
         /\ \A i \in 1..Len(events) : events'[i] = events[i]
         /\ events'[Len(events) + 1] = Signed(id, LastId, org_secret)
         /\ Signed(id, LastId, org_secret) \in Stored
         /\ Signed(id, LastId, org_secret).id = id
<1>1. org_secret \in Secret
  BY DEF TypeOK
<1>2. Signed(id, LastId, org_secret) \in Stored /\ Signed(id, LastId, org_secret).id = id
  BY <1>1, LastIdType, SignedType
<1> QED BY <1>2 DEF TypeOK

\* If no rotation event is twice in the longer log, none is in the shorter.
LEMMA OnceBefore ==
  ASSUME TypeOK, NEW id \in Id, content[id] \in Serialisable,
         events' = Append(events, Signed(id, LastId, org_secret)),
         DOMAIN key_map \subseteq DOMAIN key_map',
         RotationOnce'
  PROVE  RotationOnce
<1>1. \A i, j \in DOMAIN events :
        /\ i \in DOMAIN events' /\ j \in DOMAIN events'
        /\ events'[i] = events[i] /\ events'[j] = events[j]
  BY AppendShape
<1> QED BY <1>1 DEF RotationOnce

\* A step that adds one event, signed with the current key, whose key map
\* agrees with the old one on the events that were there.
LEMMA SignedStep ==
  ASSUME Inv, NEW id \in Id, content[id] \in Serialisable,
         events' = Append(events, Signed(id, LastId, org_secret)),
         initial_secret' = initial_secret,
         DOMAIN key_map \subseteq DOMAIN key_map',
         \A k \in 1..Len(events) :
           /\ events[k].id \in DOMAIN key_map' <=> events[k].id \in DOMAIN key_map
           /\ events[k].id \in DOMAIN key_map =>
                key_map'[events[k].id] = key_map[events[k].id]
  PROVE  SignedInForce'
<1> DEFINE n == Len(events)
           e == Signed(id, LastId, org_secret)
<1>1. SUFFICES ASSUME RotationOnce', NEW i \in DOMAIN events'
               PROVE  \E key \in Secret :
                        /\ InForce(events', initial_secret, key_map', i, key)
                        /\ events'[i].signature =
                             Signature(events'[i].id, events'[i].checksum,
                                       events'[i].prev_id, key)
  BY DEF SignedInForce
<1>2. TypeOK /\ RotationOnce /\ events \in Seq(Stored) /\ org_secret \in Secret
  BY <1>1, OnceBefore DEF Inv, TypeOK
<1>3. /\ n \in Nat
      /\ DOMAIN events = 1..n
      /\ DOMAIN events' = 1..(n + 1)
      /\ \A k \in 1..n : events'[k] = events[k]
      /\ events'[n + 1] = e
  BY <1>2, AppendShape
<1>4. \A k \in 1..(n + 1) : \A key :
        InForce(events', initial_secret, key_map', k, key) <=>
        InForce(events, initial_secret, key_map, k, key)
  BY <1>2, InForceBefore
<1>5. CASE i \in 1..n
  <2>1. PICK key \in Secret :
          /\ InForce(events, initial_secret, key_map, i, key)
          /\ events[i].signature = Signature(events[i].id, events[i].checksum,
                                             events[i].prev_id, key)
    BY <1>2, <1>3, <1>5 DEF Inv, SignedInForce
  <2>2. InForce(events', initial_secret, key_map', i, key)
    BY <1>3, <1>4, <1>5, <2>1
  <2>3. events'[i] = events[i]
    BY <1>3, <1>5
  <2> QED BY <2>1, <2>2, <2>3
<1>6. CASE i = n + 1
  <2>1. InForce(events, initial_secret, key_map, n + 1, org_secret)
    BY <1>2 DEF Inv, KeyAgreement
  <2>2. InForce(events', initial_secret, key_map', n + 1, org_secret)
    BY <1>3, <1>4, <2>1
  <2>3. e.signature = Signature(e.id, e.checksum, e.prev_id, org_secret)
    <3>1. LastId \in Id \cup {None}
      BY <1>2, LastIdType
    <3>2. /\ e.id = id /\ e.prev_id = LastId
          /\ e.checksum = Checksum(content[id])
          /\ e.signature = Signature(id, Checksum(content[id]), LastId, org_secret)
      BY <1>2, <3>1, SignedType
    <3> QED BY <3>2
  <2> QED BY <1>2, <1>3, <1>6, <2>2, <2>3
<1> QED BY <1>3, <1>5, <1>6

LEMMA AppendStep ==
  ASSUME Inv, TypeOK', NEW id \in Id, AppendEvent(id)
  PROVE  Inv'
<1> USE DEF AppendEvent
<1>1. TypeOK /\ org_secret \in Secret /\ events \in Seq(Stored)
  BY DEF Inv, TypeOK
<1>2. Linked'
  BY <1>1, LinkedStep DEF Inv
<1>3. SignedInForce'
  BY SignedStep
<1>4. /\ DOMAIN events = 1..Len(events)
      /\ DOMAIN events' = 1..(Len(events) + 1)
      /\ Len(events) \in Nat
      /\ Len(events') = Len(events) + 1
      /\ \A k \in 1..Len(events) : events'[k] = events[k]
      /\ events'[Len(events) + 1].id = id
  BY <1>1, AppendShape
<1>5. id \in CallerId => id \notin DOMAIN key_map
  BY <1>1, StreamAssumption DEF TypeOK
<1>6. id \in CallerId \/ \E k \in DOMAIN events : events[k].id = id /\ id \in DOMAIN key_map
  BY DEF Appendable, IdsIn, Inv, RotationsMapped
<1>7. RotationsMapped'
  <2>1. \A i \in DOMAIN events' : i \in DOMAIN events \/ i = Len(events) + 1
    BY <1>4
  <2> QED BY <1>4, <1>6, <2>1, StreamAssumption DEF Inv, RotationsMapped
<1>8. KeyAgreement'
  <2>1. SUFFICES ASSUME RotationOnce'
                 PROVE  InForce(events', initial_secret', key_map',
                                Len(events') + 1, org_secret')
    BY DEF KeyAgreement
  <2>2. RotationOnce
    BY <1>1, <2>1, OnceBefore
  <2>3. id \notin DOMAIN key_map
    <3>1. SUFFICES ASSUME NEW k \in DOMAIN events, events[k].id = id,
                          id \in DOMAIN key_map
                   PROVE  FALSE
      BY <1>5, <1>6
    <3>2. k \in DOMAIN events' /\ Len(events) + 1 \in DOMAIN events'
          /\ events'[k].id = id /\ k # Len(events) + 1
      BY <1>4, <3>1
    <3> QED BY <1>4, <2>1, <3>1, <3>2 DEF RotationOnce
  <2>4. InForce(events, initial_secret, key_map, Len(events) + 1, org_secret)
    BY <2>2 DEF Inv, KeyAgreement
  <2>5. Signed(id, LastId, org_secret).id = id
    BY <1>1, AppendShape
  <2>6. InForce(events', initial_secret, key_map, Len(events) + 2, org_secret)
    BY <1>1, <2>3, <2>4, <2>5, InForceAfterPlain
  <2>7. Len(events') + 1 = Len(events) + 2
    BY <1>4
  <2> QED BY <2>6, <2>7
<1> QED BY <1>2, <1>3, <1>7, <1>8 DEF Inv

LEMMA RotateStep ==
  ASSUME Inv, TypeOK', NEW id \in RotationId, NEW s \in Secret, RotateKey(id, s)
  PROVE  Inv'
<1> USE DEF RotateKey
<1>1. /\ TypeOK /\ org_secret \in Secret /\ events \in Seq(Stored)
      /\ id \in Id /\ content[id] \in Serialisable
  BY StreamAssumption DEF Inv, TypeOK, Id
<1>2. Linked'
  BY <1>1, LinkedStep DEF Inv
<1>3. \A k \in 1..Len(events) : events[k].id # id
  BY <1>1 DEF IdsIn
<1>4. /\ DOMAIN key_map' = DOMAIN key_map \cup {id}
      /\ key_map'[id] = s
      /\ \A x \in DOMAIN key_map : x # id => key_map'[x] = key_map[x]
  BY DEF Bind
<1>5. \A k \in 1..Len(events) :
        /\ events[k].id \in DOMAIN key_map' <=> events[k].id \in DOMAIN key_map
        /\ events[k].id \in DOMAIN key_map =>
             key_map'[events[k].id] = key_map[events[k].id]
  BY <1>3, <1>4
<1>6. SignedInForce'
  BY <1>1, <1>4, <1>5, SignedStep
<1>7. /\ DOMAIN events = 1..Len(events)
      /\ DOMAIN events' = 1..(Len(events) + 1)
      /\ Len(events) \in Nat
      /\ Len(events') = Len(events) + 1
      /\ \A k \in 1..Len(events) : events'[k] = events[k]
      /\ events'[Len(events) + 1].id = id
      /\ Signed(id, LastId, org_secret).id = id
  BY <1>1, AppendShape
<1>8. RotationsMapped'
  BY <1>4, <1>7 DEF Inv, RotationsMapped
<1>9. KeyAgreement'
  <2>1. id \in DOMAIN key_map'
    BY <1>4
  <2>2. InForce(events', initial_secret, key_map', Len(events) + 2, key_map'[id])
    BY <1>1, <1>7, <2>1, InForceAfterSwitch
  <2>3. Len(events') + 1 = Len(events) + 2
    BY <1>7
  <2> QED BY <1>4, <2>2, <2>3 DEF KeyAgreement
<1> QED BY <1>2, <1>6, <1>8, <1>9 DEF Inv

LEMMA Invariance == Spec => []Inv
<1>1. Init => Inv
  <2> SUFFICES ASSUME Init PROVE Inv
    OBVIOUS
  <2>1. TypeOK
    BY StreamAssumption DEF Init, TypeOK, EmptyMap, Results
  <2>2. events = <<>> /\ DOMAIN events = {} /\ Len(events) = 0
    BY DEF Init
  <2>3. NoSwitch(events, key_map, Len(events) + 1)
    BY <2>2 DEF NoSwitch
  <2>4. KeyAgreement
    BY <2>3 DEF KeyAgreement, InForce, Init
  <2> QED BY <2>1, <2>2, <2>4 DEF Inv, Linked, SignedInForce, RotationsMapped
<1>2. Inv /\ TypeOK' /\ [Next]_vars => Inv'
  <2> SUFFICES ASSUME Inv, TypeOK', [Next]_vars PROVE Inv'
    OBVIOUS
  <2>1. ASSUME NEW id \in Id, AppendEvent(id) PROVE Inv'
    BY <2>1, AppendStep
  <2>2. ASSUME NEW id \in RotationId, NEW s \in Secret, RotateKey(id, s)
        PROVE  Inv'
    BY <2>2, RotateStep
  <2>3. CASE UNCHANGED <<events, initial_secret, org_secret, key_map>>
    BY <2>3, QuietStep
  <2> QED BY <2>1, <2>2, <2>3
          DEF Next, AppendRaises, RotateBlank, RotateRaises, Mutate, vars
<1> QED BY <1>1, <1>2, TypeCorrect, PTL DEF Spec

-----------------------------------------------------------------------------
\* What a verifier reads has the ids, links and signatures that were stored.
LEMMA LogFields ==
  ASSUME TypeOK
  PROVE  /\ DOMAIN Log = DOMAIN events
         /\ \A i \in DOMAIN events :
              /\ Log[i].id = events[i].id
              /\ Log[i].prev_id = events[i].prev_id
              /\ Log[i].checksum = events[i].checksum
              /\ Log[i].signature = events[i].signature
              /\ Log[i].payload = content[events[i].payload]
<1>1. DOMAIN Log = DOMAIN events
  BY DEF Log
<1>2. ASSUME NEW i \in DOMAIN events
      PROVE  /\ Log[i].id = events[i].id
             /\ Log[i].prev_id = events[i].prev_id
             /\ Log[i].checksum = events[i].checksum
             /\ Log[i].signature = events[i].signature
             /\ Log[i].payload = content[events[i].payload]
  <2>1. events[i] \in Stored
    BY DEF TypeOK
  <2>2. Log[i] = [events[i] EXCEPT !.payload = content[events[i].payload]]
    BY DEF Log
  <2> QED BY <2>1, <2>2 DEF Stored
<1> QED BY <1>1, <1>2

LEMMA LogLength ==
  ASSUME TypeOK
  PROVE  Len(events) \in Nat /\ DOMAIN events = 1..Len(events)
BY DEF TypeOK

\* The key in force depends on the ids only.
LEMMA LogInForce ==
  ASSUME TypeOK, NEW i \in DOMAIN events, NEW key,
         InForce(events, initial_secret, key_map, i, key)
  PROVE  InForce(Log, initial_secret, key_map, i, key)
<1>1. \A k \in 1..(i - 1) : k \in DOMAIN events
  BY LogLength
<1>2. \A k \in 1..(i - 1) : Log[k].id = events[k].id
  BY <1>1, LogFields
<1>3. NoSwitch(events, key_map, i) => NoSwitch(Log, key_map, i)
  BY <1>2 DEF NoSwitch
<1>4. \A j \in 1..(i - 1) :
        LastSwitch(events, key_map, i, j) => LastSwitch(Log, key_map, i, j)
  <2> TAKE j \in 1..(i - 1)
  <2>1. \A k \in (j + 1)..(i - 1) : k \in 1..(i - 1)
    BY LogLength
  <2> QED BY <1>2, <2>1 DEF LastSwitch
<1> QED BY <1>2, <1>3, <1>4 DEF InForce

\* verify_chain() accepts position i when the key in force signed it and the
\* payload still has the stored checksum.
LEMMA AcceptedBy ==
  ASSUME NEW es, NEW s, NEW km, NEW i, NEW key,
         InForce(es, s, km, i, key), Verify(es[i], key)
  PROVE  VerifiesAt(es, s, km, i)
BY DEF InForce, VerifiesAt

\* A stream written by one thread never shows a gap, whatever was appended to
\* it (append() links each event to the last one).
THEOREM StreamHasNoGaps == Spec => []NoGaps
<1>1. Inv => NoGaps
  <2> SUFFICES ASSUME Inv, NEW i \in DOMAIN Log PROVE LinkedAt(Log, i)
    BY DEF NoGaps, Gaps
  <2>1. TypeOK /\ Linked
    BY DEF Inv
  <2>2. i \in DOMAIN events /\ (i # 1 => i - 1 \in DOMAIN events)
    BY <2>1, LogFields, LogLength
  <2> QED BY <2>1, <2>2, LogFields DEF LinkedAt, Linked
<1> QED BY <1>1, Invariance, PTL

\* append() and verify() agree on the key for the next event.
THEOREM SignerAndVerifierAgree == Spec => []KeyAgreement
<1>1. Inv => KeyAgreement
  BY DEF Inv
<1> QED BY <1>1, Invariance, PTL

\* verify() blames exactly the events whose payload changed after signing.
THEOREM VerdictIsExact == Spec => []VerdictExact
<1>1. Inv => VerdictExact
  <2> SUFFICES ASSUME Inv, RotationOnce
               PROVE  Tampered(Log, initial_secret, key_map) = Altered
    BY DEF VerdictExact
  <2>1. TypeOK /\ Linked /\ DOMAIN Log = DOMAIN events
    BY LogFields DEF Inv
  <2> SUFFICES ASSUME NEW i \in DOMAIN events
               PROVE  VerifiesAt(Log, initial_secret, key_map, i) <=>
                        events[i].checksum = Checksum(content[events[i].payload])
    BY <2>1 DEF Tampered, Altered
  <2>2. ASSUME VerifiesAt(Log, initial_secret, key_map, i)
        PROVE  events[i].checksum = Checksum(content[events[i].payload])
    <3>1. Log[i].checksum = Checksum(Log[i].payload)
      BY <2>2 DEF VerifiesAt, Verify
    <3> QED BY <2>1, <3>1, LogFields
  <2>3. ASSUME events[i].checksum = Checksum(content[events[i].payload])
        PROVE  VerifiesAt(Log, initial_secret, key_map, i)
    <3>1. PICK key \in Secret :
            /\ InForce(events, initial_secret, key_map, i, key)
            /\ events[i].signature = Signature(events[i].id, events[i].checksum,
                                               events[i].prev_id, key)
      BY DEF Inv, SignedInForce
    <3>2. events[i] \in Stored
      BY <2>1 DEF TypeOK
    <3>3. Log[i].checksum # None
      <4>1. content[events[i].payload] \in Payload
        BY <2>1, <3>2 DEF TypeOK, Stored
      <4> QED BY <2>1, <2>3, <4>1, LogFields, StreamAssumption
    <3>4. Log[i].signature # None
      <4>1. content[events[i].payload] \in Payload /\ events[i].id \in Id
            /\ events[i].prev_id \in Id \cup {None}
        BY <2>1, <3>2 DEF TypeOK, Stored
      <4>2. events[i].signature =
              Signature(events[i].id, Checksum(content[events[i].payload]),
                        events[i].prev_id, key)
        BY <2>3, <3>1
      <4>3. events[i].signature # None
        BY <4>1, <4>2, StreamAssumption
      <4> QED BY <2>1, <4>3, LogFields
    <3>5. Verify(Log[i], key)
      BY <2>1, <2>3, <3>1, <3>3, <3>4, LogFields DEF Verify
    <3>6. InForce(Log, initial_secret, key_map, i, key)
      BY <2>1, <3>1, LogInForce
    <3> QED BY <3>5, <3>6, AcceptedBy
  <2> QED BY <2>2, <2>3
<1> QED BY <1>1, Invariance, PTL
=============================================================================
