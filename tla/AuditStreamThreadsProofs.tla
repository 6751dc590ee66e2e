---------------------- MODULE AuditStreamThreadsProofs ----------------------
(* Proofs about an AuditStream shared by threads, for every number of       *)
(* writers and verifiers, every set of ids and keys, and every interleaving *)
(* of their steps.                                                          *)
EXTENDS AuditStreamThreads, FiniteSetTheorems, TLAPS

(***************************************************************************)
(* The inductive invariant.  Shape types what TypeOK leaves open; Room is  *)
(* why the stream does not outgrow its bound; Fresh says that rotate_key() *)
(* draws an id that nobody has seen; Overlap ties the history to the calls *)
(* that are in progress.  Signing, Keyed and Linked are what a stream      *)
(* keeps as long as no rotation, or no call at all, overlapped another     *)
(* writing call; Keyed also needs that no rotation event was appended      *)
(* again.  Copies is what a verifier may rely on between its two copies.   *)
(***************************************************************************)
Local == [id         : Id \cup {None},
          new_secret : Secret \cup {None},
          prev       : Id \cup {None},
          signed     : Event \cup {None}]

Place == {"idle", "sign", "push", "record", "switch", "check", "report"}

\* The writing call of thread w is a rotate_key().
Rotates(w) == call[w].new_secret # None

Pushing == {w \in Writer : pc[w] \in {"sign", "push"}}

Shape ==
  /\ serial \in BOOLEAN
  /\ pc \in [Writer \cup Verifier -> Place]
  /\ call \in [Writer -> Local]
  /\ copied = [v \in Verifier |-> copied[v]]
  /\ \A w \in Writing :
       /\ call[w].id \in Id
       /\ Rotates(w) => call[w].id \in RotationId /\ call[w].new_secret \in Secret
       /\ pc[w] \in {"record", "switch"} => Rotates(w)
       /\ pc[w] = "push" => /\ call[w].signed \in Event
                            /\ call[w].signed.id = call[w].id
                            /\ call[w].signed.prev_id = call[w].prev
       /\ pc[w] \in {"record", "switch"} => call[w].signed \in Event

Room == Len(events) + Cardinality(Pushing) <= MaxEvents

Fresh ==
  /\ \A i \in DOMAIN events : events[i].id \in RotationId => events[i].id \in taken
  /\ \A w \in Writing : call[w].id \in RotationId => call[w].id \in taken
  /\ \A u, w \in Writing :
       u # w /\ Rotates(u) /\ Rotates(w) => call[u].id # call[w].id
  /\ \A w \in Writing : ~Rotates(w) /\ call[w].id \in RotationId =>
       \E i \in DOMAIN events : events[i].id = call[w].id
  /\ \A w \in Writing : pc[w] \in {"sign", "push"} /\ Rotates(w) =>
       \A i \in DOMAIN events : events[i].id # call[w].id
  /\ \A w \in Writing : pc[w] \in {"sign", "push", "record"} /\ Rotates(w) =>
       call[w].id \notin DOMAIN key_map
  /\ \A w \in Writer : pc[w] = "switch" =>
       call[w].id \in DOMAIN key_map /\ key_map[call[w].id] = call[w].new_secret

Overlap ==
  /\ \A u, w \in Writing : u # w => Kind(call[u].new_secret) \in overlaps
  /\ serial => overlaps = {}

\* The event of a rotation in progress is the last, and the only one of its id.
LastOnce(id) ==
  LastId = id /\ \A i \in 1..(Len(events) - 1) : events[i].id # id

Signing ==
  "rotate" \notin overlaps =>
    /\ \A w \in Writer : pc[w] = "push" =>
         call[w].signed = Sign(call[w].id, Content[call[w].id], call[w].prev, org_secret)
    /\ \A w \in Writer : pc[w] \in {"record", "switch"} => LastOnce(call[w].id)

Keyed ==
  "rotate" \notin overlaps /\ RotationOnce =>
    /\ \A i \in DOMAIN events : VerifiesAt(events, initial_secret, key_map, i)
    /\ (\A w \in Writer : pc[w] # "switch") =>
         InForce(events, initial_secret, key_map, Len(events) + 1, org_secret)
    /\ \A w \in Writer : pc[w] = "switch" =>
         InForce(events, initial_secret, key_map, Len(events) + 1, call[w].new_secret)

Linked ==
  overlaps = {} =>
    /\ \A i \in DOMAIN events : LinkedAt(events, i)
    /\ \A w \in Writer : pc[w] \in {"sign", "push"} => call[w].prev = LastId

Copies ==
  \A v \in Verifier :
    /\ pc[v] = "check" /\ ~outdated[v] => copied[v] = key_map
    /\ pc[v] = "report" /\ ~valid[v] => overlaps # {} \/ outdated[v] \/ ~RotationOnce

IInv ==
  TypeOK /\ Shape /\ Room /\ Fresh /\ Overlap /\ Signing /\ Keyed /\ Linked /\ Copies

-----------------------------------------------------------------------------
(* Signatures and the keys they verify under.                              *)

LEMMA LastSwitchUnique ==
  ASSUME NEW es, NEW km, NEW n \in Nat, NEW j1, NEW j2,
         LastSwitch(es, km, n, j1), LastSwitch(es, km, n, j2)
  PROVE  j1 = j2
<1>1. j1 \in 1..(n - 1) /\ j2 \in 1..(n - 1)
  BY DEF LastSwitch
<1>2. CASE j1 < j2
  BY <1>1, <1>2 DEF LastSwitch
<1>3. CASE j2 < j1
  BY <1>1, <1>3 DEF LastSwitch
<1> QED BY <1>1, <1>2, <1>3

\* The event at n verifies exactly when it does under the key in force there.
LEMMA KeyDecides ==
  ASSUME NEW es, NEW s, NEW km, NEW n \in Nat, NEW key,
         InForce(es, s, km, n, key)
  PROVE  VerifiesAt(es, s, km, n) <=> Verify(es[n], key)
<1>1. CASE NoSwitch(es, km, n) /\ key = s
  <2>1. \A j : ~LastSwitch(es, km, n, j)
    BY <1>1 DEF NoSwitch, LastSwitch
  <2> QED BY <1>1, <2>1 DEF VerifiesAt
<1>2. CASE \E j \in 1..(n - 1) : LastSwitch(es, km, n, j) /\ key = km[es[j].id]
  <2>1. PICK j \in 1..(n - 1) : LastSwitch(es, km, n, j) /\ key = km[es[j].id]
    BY <1>2
  <2>2. ~NoSwitch(es, km, n)
    BY <2>1 DEF NoSwitch, LastSwitch
  <2>3. \A jj \in 1..(n - 1) : LastSwitch(es, km, n, jj) => jj = j
    BY <2>1, LastSwitchUnique
  <2> QED BY <2>1, <2>2, <2>3 DEF VerifiesAt
<1> QED BY <1>1, <1>2 DEF InForce

\* Two streams and key maps switch the same keys before position n.
Alike(es, km, es2, km2, n) ==
  \A k \in 1..(n - 1) :
    /\ es2[k].id = es[k].id
    /\ es2[k].id \in DOMAIN km2 <=> es[k].id \in DOMAIN km
    /\ es[k].id \in DOMAIN km => km2[es[k].id] = km[es[k].id]

LEMMA AlikeSwitches ==
  ASSUME NEW es, NEW km, NEW es2, NEW km2, NEW n \in Nat, Alike(es, km, es2, km2, n)
  PROVE  /\ NoSwitch(es2, km2, n) <=> NoSwitch(es, km, n)
         /\ \A j \in 1..(n - 1) : LastSwitch(es2, km2, n, j) <=> LastSwitch(es, km, n, j)
         /\ \A j \in 1..(n - 1) : LastSwitch(es, km, n, j) => km2[es2[j].id] = km[es[j].id]
<1>1. NoSwitch(es2, km2, n) <=> NoSwitch(es, km, n)
  BY DEF Alike, NoSwitch
<1>2. ASSUME NEW j \in 1..(n - 1)
      PROVE  LastSwitch(es2, km2, n, j) <=> LastSwitch(es, km, n, j)
  <2>1. \A k \in (j + 1)..(n - 1) : k \in 1..(n - 1)
    OBVIOUS
  <2> QED BY <2>1 DEF Alike, LastSwitch
<1>3. \A j \in 1..(n - 1) : LastSwitch(es, km, n, j) => km2[es2[j].id] = km[es[j].id]
  BY DEF Alike, LastSwitch
<1> QED BY <1>1, <1>2, <1>3

\* So the same key is in force there, and the same events verify.
LEMMA AlikeInForce ==
  ASSUME NEW es, NEW km, NEW es2, NEW km2, NEW n \in Nat, NEW s, NEW key,
         Alike(es, km, es2, km2, n), InForce(es, s, km, n, key)
  PROVE  InForce(es2, s, km2, n, key)
BY AlikeSwitches DEF InForce

LEMMA AlikeVerifies ==
  ASSUME NEW es, NEW km, NEW es2, NEW km2, NEW n \in Nat, NEW s,
         Alike(es, km, es2, km2, n), es2[n] = es[n], VerifiesAt(es, s, km, n)
  PROVE  VerifiesAt(es2, s, km2, n)
BY AlikeSwitches DEF VerifiesAt

\* The key in force after position n.
LEMMA KeyStep ==
  ASSUME NEW es, NEW s, NEW km, NEW n \in Nat \ {0}, NEW key,
         es[n].id \notin DOMAIN km => InForce(es, s, km, n, key)
  PROVE  InForce(es, s, km, n + 1,
                 IF es[n].id \in DOMAIN km THEN km[es[n].id] ELSE key)
<1>1. /\ (n + 1) - 1 = n
      /\ n \in 1..n
      /\ \A k \in 1..n : k \in 1..(n - 1) \/ k = n
      /\ \A k \in 1..(n - 1) : k \in 1..n
      /\ (n + 1)..n = {}
  OBVIOUS
<1>2. CASE es[n].id \in DOMAIN km
  <2>1. LastSwitch(es, km, n + 1, n)
    BY <1>1, <1>2 DEF LastSwitch
  <2> QED BY <1>1, <1>2, <2>1 DEF InForce
<1>3. CASE es[n].id \notin DOMAIN km
  <2>1. NoSwitch(es, km, n) => NoSwitch(es, km, n + 1)
    BY <1>1, <1>3 DEF NoSwitch
  <2>2. ASSUME NEW j \in 1..(n - 1), LastSwitch(es, km, n, j)
        PROVE  LastSwitch(es, km, n + 1, j)
    <3>1. \A k \in (j + 1)..n : k \in (j + 1)..(n - 1) \/ k = n
      OBVIOUS
    <3> QED BY <1>1, <1>3, <2>2, <3>1 DEF LastSwitch
  <2> QED BY <1>1, <1>3, <2>1, <2>2 DEF InForce
<1> QED BY <1>2, <1>3

\* What sign() returns verifies under the key it was given.
LEMMA SignType ==
  ASSUME NEW id \in Id, NEW prev \in Id \cup {None}, NEW s \in Secret
  PROVE  LET e == Sign(id, Content[id], prev, s)
         IN  e \in Event /\ e.id = id /\ e.prev_id = prev /\ Verify(e, s)
<1>1. Content[id] \in {Body, Marker}
  BY DEF Content
<1> DEFINE e == Sign(id, Content[id], prev, s)
<1>2. /\ e.id = id /\ e.payload = Content[id] /\ e.prev_id = prev
      /\ e.checksum = Checksum(Content[id])
      /\ e.signature = Signature(id, Checksum(Content[id]), prev, s)
  BY DEF Sign, SignObject
<1>3. e \in Event
  BY <1>1 DEF Event, Digest, Mac, Sign, SignObject
<1>4. e.checksum # None /\ e.signature # None
  BY <1>1, <1>2, ThreadsAssumption
<1> QED BY <1>2, <1>3, <1>4 DEF Verify

LEMMA EventIds ==
  ASSUME NEW e \in Event PROVE e.id \in Id /\ e.prev_id \in Id \cup {None}
BY DEF Event

LEMMA LastIdType ==
  ASSUME TypeOK
  PROVE  /\ LastId \in Id \cup {None}
         /\ Len(events) \in Nat /\ DOMAIN events = 1..Len(events)
         /\ \A i \in 1..Len(events) : events[i] \in Event /\ events[i].id \in Id
         /\ events # <<>> => /\ Len(events) \in 1..Len(events)
                             /\ LastId = events[Len(events)].id
         /\ events = <<>> => LastId = None /\ Len(events) = 0
<1>1. Len(events) \in Nat /\ DOMAIN events = 1..Len(events)
  BY DEF TypeOK
<1>2. \A i \in 1..Len(events) : events[i] \in Event /\ events[i].id \in Id
  BY EventIds DEF TypeOK
<1>3. events # <<>> => Len(events) \in 1..Len(events)
  BY DEF TypeOK
<1> QED BY <1>1, <1>2, <1>3 DEF LastId

-----------------------------------------------------------------------------
(* Who is writing, and what becomes of it when one thread takes a step.    *)

LEMMA WritingFacts ==
  ASSUME IInv
  PROVE  /\ Writing \subseteq Writer /\ IsFiniteSet(Writing)
         /\ Pushing \subseteq Writing /\ IsFiniteSet(Pushing)
         /\ Cardinality(Pushing) \in Nat /\ Cardinality(Writing) \in Nat
         /\ Cardinality(Pushing) <= Cardinality(Writing)
<1>1. Writing \subseteq Writer /\ Pushing \subseteq Writing
  BY DEF Writing, Pushing
<1>2. IsFiniteSet(Writing)
  BY <1>1, ThreadsAssumption, FS_Subset
<1> QED BY <1>1, <1>2, FS_Subset, FS_CardinalityType

\* A rotation in progress is alone as long as none has overlapped.
LEMMA RotatorAlone ==
  ASSUME IInv, "rotate" \notin overlaps, NEW w \in Writing, NEW u \in Writing, u # w
  PROVE  ~Rotates(u) /\ ~Rotates(w)
BY DEF IInv, Overlap, Kind, Rotates

LEMMA KindType == \A s : Kind(s) \in {"append", "rotate"}
BY DEF Kind

\* What is not in the stream twice when it has grown was not before.
LEMMA OnceBefore ==
  ASSUME NEW e, events \in Seq(Event), events' = Append(events, e), RotationOnce'
  PROVE  RotationOnce
<1>1. \A i \in DOMAIN events : i \in DOMAIN events' /\ events'[i] = events[i]
  OBVIOUS
<1> QED BY <1>1 DEF RotationOnce

-----------------------------------------------------------------------------
\* A writing call begins.
LEMMA EnterInv ==
  ASSUME IInv, NEW w \in Writer, NEW id \in Id, NEW new_secret, Enter(w, id, new_secret),
         \/ /\ id \in CallerId \cup (RotationId \cap IdsIn(events))
            /\ new_secret = None /\ taken' = taken
         \/ id \in RotationId \ taken /\ new_secret \in Secret /\ taken' = taken \cup {id}
  PROVE  IInv'
<1> DEFINE c == [id |-> id, new_secret |-> new_secret, prev |-> LastId, signed |-> None]
<1>1. /\ pc[w] = "idle" /\ (serial => Writing = {})
      /\ Len(events) + Cardinality(Writing) < MaxEvents
      /\ overlaps' = IF Writing = {} THEN overlaps
                     ELSE overlaps \cup {Kind(new_secret)}
                                   \cup {Kind(call[u].new_secret) : u \in Writing}
      /\ pc' = [pc EXCEPT ![w] = "sign"]
      /\ UNCHANGED <<serial, events, initial_secret, org_secret, key_map, copied, valid, outdated>>
      /\ call' = [call EXCEPT ![w] = c]
  BY DEF Enter, Goto, shared, verifiers
<1>2. TypeOK /\ Shape /\ Room /\ Fresh /\ Overlap /\ Signing /\ Keyed /\ Linked /\ Copies
  BY DEF IInv
<1>3. /\ pc'[w] = "sign" /\ call'[w] = c
      /\ \A u \in Writer : u # w => pc'[u] = pc[u] /\ call'[u] = call[u]
      /\ \A v \in Verifier : pc'[v] = pc[v]
  BY <1>1, <1>2, ThreadsAssumption DEF Shape
<1>4. c.id = id /\ c.new_secret = new_secret /\ c.prev = LastId /\ c.signed = None
  OBVIOUS
<1>5. c \in Local
  BY <1>2, LastIdType DEF Local
<1>6. /\ Writing' = Writing \cup {w} /\ w \notin Writing
      /\ Pushing' = Pushing \cup {w} /\ w \notin Pushing
      /\ LastId' = LastId
  BY <1>1, <1>3 DEF Writing, Pushing, LastId
<1>7. overlaps \subseteq overlaps' /\ overlaps' \subseteq {"append", "rotate"}
  BY <1>1, <1>2, KindType DEF TypeOK
<1> HIDE DEF c
<1>8. TypeOK'
  <2>1. taken' \subseteq RotationId /\ taken \subseteq taken'
    BY <1>2 DEF TypeOK
  <2>2. IsKeyMap(key_map)' /\ \A v \in Verifier : IsKeyMap(copied[v])'
    BY <1>1, <1>2, <2>1 DEF TypeOK, IsKeyMap
  <2>3. LastId \in Id \cup {None}
    BY <1>2, LastIdType
  <2> QED BY <1>1, <1>2, <1>3, <1>4, <1>7, <2>1, <2>2, <2>3 DEF TypeOK
<1>9. Shape'
  <2>1. /\ pc' \in [Writer \cup Verifier -> Place] /\ call' \in [Writer -> Local]
    BY <1>1, <1>2, <1>5 DEF Shape, Place
  <2>2. ASSUME NEW u \in Writing' PROVE u = w \/ (u \in Writing /\ u # w)
    BY <1>6
  <2>3. new_secret # None => id \in RotationId /\ new_secret \in Secret
    OBVIOUS
  <2> QED BY <1>1, <1>2, <1>3, <1>4, <1>6, <2>1, <2>2, <2>3 DEF Shape, Writing, Rotates
<1>10. Room'
  <2>1. Cardinality(Pushing') = Cardinality(Pushing) + 1
    BY <1>6, WritingFacts, FS_AddElement
  <2> QED BY <1>1, <1>2, <2>1, WritingFacts, LastIdType, ThreadsAssumption DEF Room
<1>11. Fresh'
  <2>1. \A u \in Writing : u # w /\ pc'[u] = pc[u] /\ call'[u] = call[u]
    BY <1>3, <1>6 DEF Writing
  <2>2. new_secret # None => \A i \in DOMAIN events : events[i].id # id
    BY <1>2 DEF Fresh
  <2>3. new_secret # None => \A u \in Writing : call[u].id # id
    BY <1>2 DEF Fresh
  <2>4. new_secret # None => id \notin DOMAIN key_map
    BY <1>2 DEF TypeOK, IsKeyMap
  <2>5. /\ taken \subseteq taken' /\ (id \in RotationId => id \in taken')
        /\ new_secret = None /\ id \in RotationId => \E i \in DOMAIN events : events[i].id = id
    BY <1>2, ThreadsAssumption DEF Fresh, IdsIn
  <2>6. \A u \in Writer : pc'[u] = "switch" => pc[u] = "switch" /\ call'[u] = call[u]
    BY <1>3
  <2>7. \A u, x \in Writing' :
          u # x /\ call'[u].new_secret # None /\ call'[x].new_secret # None
            => call'[u].id # call'[x].id
    BY <1>2, <1>3, <1>4, <1>6, <2>1, <2>3 DEF Fresh, Rotates
  <2>8. \A u \in Writing' : u = w \/ u \in Writing
    BY <1>6
  <2> QED BY <1>1, <1>2, <1>3, <1>4, <2>1, <2>2, <2>4, <2>5, <2>6, <2>7, <2>8
          DEF Fresh, Rotates
<1>12. Overlap'
  <2>1. ASSUME NEW u \in Writing', NEW x \in Writing', u # x
        PROVE  Kind(call'[u].new_secret) \in overlaps'
    <3>1. CASE u = w
      BY <1>1, <1>3, <1>4, <1>6, <2>1, <3>1
    <3>2. CASE u # w
      BY <1>1, <1>3, <1>6, <2>1, <3>2 DEF Writing
    <3> QED BY <3>1, <3>2
  <2> QED BY <1>1, <1>2, <2>1 DEF Overlap
<1>13. Signing' /\ Keyed'
  <2>1. \A u \in Writer : pc'[u] \in {"push", "record", "switch"} =>
          pc[u] = pc'[u] /\ call'[u] = call[u]
    BY <1>3
  <2>2. (\A u \in Writer : pc'[u] # "switch") => \A u \in Writer : pc[u] # "switch"
    BY <1>1, <1>3
  <2> QED BY <1>1, <1>2, <1>6, <1>7, <2>1, <2>2 DEF Keyed, Signing, LastOnce, RotationOnce
<1>14. Linked'
  BY <1>1, <1>2, <1>3, <1>4, <1>6, <1>7 DEF Linked
<1>15. Copies'
  BY <1>1, <1>2, <1>3, <1>7 DEF Copies, RotationOnce
<1> QED BY <1>8, <1>9, <1>10, <1>11, <1>12, <1>13, <1>14, <1>15 DEF IInv

\* append() has signed.
LEMMA SignWithInv ==
  ASSUME IInv, NEW w \in Writer, SignWith(w) PROVE IInv'
<1> DEFINE e == Sign(call[w].id, Content[call[w].id], call[w].prev, org_secret)
           c == [call[w] EXCEPT !.signed = e]
<1>1. /\ pc[w] = "sign" /\ pc' = [pc EXCEPT ![w] = "push"]
      /\ call' = [call EXCEPT ![w] = c]
      /\ UNCHANGED <<serial, events, initial_secret, org_secret, key_map, copied, valid,
                     taken, overlaps, outdated>>
  BY DEF SignWith, Goto, shared, verifiers
<1>2. TypeOK /\ Shape /\ Room /\ Fresh /\ Overlap /\ Signing /\ Keyed /\ Linked /\ Copies
  BY DEF IInv
<1>3. /\ pc'[w] = "push" /\ call'[w] = c
      /\ \A u \in Writer : u # w => pc'[u] = pc[u] /\ call'[u] = call[u]
      /\ \A v \in Verifier : pc'[v] = pc[v]
  BY <1>1, <1>2, ThreadsAssumption DEF Shape
<1>4. w \in Writing /\ call[w] \in Local
  BY <1>1, <1>2 DEF Writing, Shape
<1>5. e \in Event /\ e.id = call[w].id /\ e.prev_id = call[w].prev
  <2>1. call[w].id \in Id /\ call[w].prev \in Id \cup {None} /\ org_secret \in Secret
    BY <1>1, <1>2 DEF TypeOK
  <2> QED BY <2>1, SignType
<1>6. /\ c \in Local /\ c.id = call[w].id /\ c.new_secret = call[w].new_secret
      /\ c.prev = call[w].prev /\ c.signed = e
  BY <1>4, <1>5 DEF Local
<1>7. Writing' = Writing /\ Pushing' = Pushing /\ LastId' = LastId
  BY <1>1, <1>3 DEF Writing, Pushing, LastId
<1> HIDE DEF c
<1>8. TypeOK'
  <2>1. IsKeyMap(key_map)' /\ \A v \in Verifier : IsKeyMap(copied[v])'
    BY <1>1, <1>2 DEF TypeOK, IsKeyMap
  <2>2. \A u \in Writer :
          /\ pc'[u] \in {"idle", "sign", "push", "record", "switch"}
          /\ pc'[u] # "idle" => /\ call'[u].id \in Id
                                /\ call'[u].prev \in Id \cup {None}
          /\ pc'[u] \in {"record", "switch"} => call'[u].new_secret \in Secret
          /\ pc'[u] \in {"push", "record", "switch"} => call'[u].signed \in Event
    BY <1>1, <1>2, <1>3, <1>5, <1>6 DEF TypeOK
  <2> QED BY <1>1, <1>2, <1>3, <2>1, <2>2 DEF TypeOK
<1>9. Shape'
  <2>1. pc' \in [Writer \cup Verifier -> Place] /\ call' \in [Writer -> Local]
    BY <1>1, <1>2, <1>6 DEF Shape, Place
  <2> QED BY <1>1, <1>2, <1>3, <1>4, <1>5, <1>6, <1>7, <2>1 DEF Shape, Rotates
<1>10. Room'
  BY <1>1, <1>2, <1>7 DEF Room
<1>11. \A u \in Writer : call'[u].id = call[u].id /\ call'[u].new_secret = call[u].new_secret
  BY <1>3, <1>6
<1>12. Fresh'
  BY <1>1, <1>2, <1>3, <1>7, <1>11 DEF Fresh, Writing, Rotates
<1>13. Overlap'
  BY <1>1, <1>2, <1>7, <1>11 DEF Overlap, Writing
<1>14. Signing' /\ Keyed'
  <2>1. \A u \in Writer : pc'[u] = "push" /\ "rotate" \notin overlaps =>
          call'[u].signed = Sign(call'[u].id, Content[call'[u].id], call'[u].prev, org_secret)
    BY <1>2, <1>3, <1>6 DEF Signing
  <2>2. \A u \in Writer : pc'[u] \in {"record", "switch"} => pc[u] = pc'[u]
    BY <1>3
  <2>3. (\A u \in Writer : pc'[u] # "switch") => \A u \in Writer : pc[u] # "switch"
    BY <1>1, <1>3
  <2> QED BY <1>1, <1>2, <1>7, <1>11, <2>1, <2>2, <2>3
          DEF Keyed, Signing, LastOnce, RotationOnce
<1>15. Linked'
  BY <1>1, <1>2, <1>3, <1>6, <1>7 DEF Linked
<1>16. Copies'
  BY <1>1, <1>2, <1>3 DEF Copies, RotationOnce
<1> QED BY <1>8, <1>9, <1>10, <1>12, <1>13, <1>14, <1>15, <1>16 DEF IInv

\* sign() has raised, and the call is over.
LEMMA SignRaisesInv ==
  ASSUME IInv, NEW w \in Writer, SignRaises(w) PROVE IInv'
<1>1. /\ pc[w] = "sign" /\ pc' = [pc EXCEPT ![w] = "idle"]
      /\ call' = [call EXCEPT ![w] = Idle]
      /\ UNCHANGED <<serial, events, initial_secret, org_secret, key_map, copied, valid,
                     taken, overlaps, outdated>>
  BY DEF SignRaises, Goto, shared, verifiers
<1>2. TypeOK /\ Shape /\ Room /\ Fresh /\ Overlap /\ Signing /\ Keyed /\ Linked /\ Copies
  BY DEF IInv
<1>3. /\ pc'[w] = "idle"
      /\ \A u \in Writer : u # w => pc'[u] = pc[u] /\ call'[u] = call[u]
      /\ \A v \in Verifier : pc'[v] = pc[v]
  BY <1>1, <1>2, ThreadsAssumption DEF Shape
<1>4. Writing' = Writing \ {w} /\ Pushing' = Pushing \ {w} /\ LastId' = LastId
  BY <1>1, <1>3 DEF Writing, Pushing, LastId
<1>5. TypeOK'
  <2>1. IsKeyMap(key_map)' /\ \A v \in Verifier : IsKeyMap(copied[v])'
    BY <1>1, <1>2 DEF TypeOK, IsKeyMap
  <2> QED BY <1>1, <1>2, <1>3, <2>1 DEF TypeOK
<1>6. Shape'
  <2>1. pc' \in [Writer \cup Verifier -> Place] /\ call' \in [Writer -> Local]
    BY <1>1, <1>2 DEF Shape, Place, Idle, Local
  <2> QED BY <1>1, <1>2, <1>3, <1>4, <2>1 DEF Shape, Writing, Rotates
<1>7. Room'
  <2>1. Cardinality(Pushing') <= Cardinality(Pushing) /\ Cardinality(Pushing') \in Nat
    BY <1>4, WritingFacts, FS_Subset, FS_CardinalityType
  <2> QED BY <1>1, <1>2, <2>1, WritingFacts, LastIdType, ThreadsAssumption DEF Room
<1>8. Fresh'
  BY <1>1, <1>2, <1>3, <1>4 DEF Fresh, Writing, Rotates
<1>9. Overlap'
  BY <1>1, <1>2, <1>3, <1>4 DEF Overlap, Writing
<1>10. Signing' /\ Keyed'
  <2>1. \A u \in Writer : pc'[u] \in {"push", "record", "switch"} =>
          pc[u] = pc'[u] /\ call'[u] = call[u]
    BY <1>3
  <2>2. (\A u \in Writer : pc'[u] # "switch") => \A u \in Writer : pc[u] # "switch"
    BY <1>1, <1>3
  <2> QED BY <1>1, <1>2, <1>4, <2>1, <2>2 DEF Keyed, Signing, LastOnce, RotationOnce
<1>11. Linked'
  BY <1>1, <1>2, <1>3, <1>4 DEF Linked
<1>12. Copies'
  BY <1>1, <1>2, <1>3 DEF Copies, RotationOnce
<1> QED BY <1>5, <1>6, <1>7, <1>8, <1>9, <1>10, <1>11, <1>12 DEF IInv

\* An event that is not in the key map is stored: what was in force and what
\* verified stays so, and the key in force after it is the one before it.
LEMMA PushKeeps ==
  ASSUME NEW es, es \in Seq(Event), NEW e, NEW s, NEW km, NEW key,
         e.id \notin DOMAIN km,
         InForce(es, s, km, Len(es) + 1, key), Verify(e, key),
         \A i \in DOMAIN es : VerifiesAt(es, s, km, i)
  PROVE  LET es2 == Append(es, e)
         IN  /\ \A i \in DOMAIN es2 : VerifiesAt(es2, s, km, i)
             /\ InForce(es2, s, km, Len(es2) + 1, key)
<1> DEFINE es2 == Append(es, e)
           n == Len(es)
<1>1. /\ n \in Nat /\ Len(es2) = n + 1 /\ DOMAIN es = 1..n /\ DOMAIN es2 = 1..(n + 1)
      /\ \A k \in 1..n : es2[k] = es[k]
      /\ es2[n + 1] = e
  OBVIOUS
<1> HIDE DEF es2, n
<1>2. \A i \in 1..(n + 1) : i \in Nat /\ \A k \in 1..(i - 1) : k \in 1..n
  BY <1>1
<1>3. \A i \in 1..(n + 1) : Alike(es, km, es2, km, i)
  BY <1>1, <1>2 DEF Alike
<1>4. InForce(es2, s, km, n + 1, key)
  <2>1. n + 1 \in 1..(n + 1) /\ n + 1 \in Nat
    BY <1>1
  <2> QED BY <1>3, <2>1, AlikeInForce DEF n
<1>5. \A i \in 1..(n + 1) : VerifiesAt(es2, s, km, i)
  <2>1. VerifiesAt(es2, s, km, n + 1)
    BY <1>1, <1>4, KeyDecides
  <2>2. ASSUME NEW i \in 1..n PROVE VerifiesAt(es2, s, km, i)
    <3>1. i \in 1..(n + 1) /\ i \in Nat
      BY <1>1
    <3> QED BY <1>1, <1>3, <3>1, AlikeVerifies
  <2>3. \A i \in 1..(n + 1) : i \in 1..n \/ i = n + 1
    BY <1>1
  <2> QED BY <2>1, <2>2, <2>3
<1>6. InForce(es2, s, km, (n + 1) + 1, key)
  <2>1. n + 1 \in Nat \ {0}
    BY <1>1
  <2> QED BY <1>1, <1>4, <2>1, KeyStep
<1> QED BY <1>1, <1>5, <1>6 DEF es2

\* events_list.append(signed): append() is over, rotate_key() goes on.
LEMMA PushInv ==
  ASSUME IInv, NEW w \in Writer, Push(w) PROVE IInv'
<1> DEFINE e == call[w].signed
           rotating == Rotates(w)
<1>1. /\ pc[w] = "push" /\ events' = Append(events, e)
      /\ IF call[w].new_secret = None
         THEN pc' = [pc EXCEPT ![w] = "idle"] /\ call' = [call EXCEPT ![w] = Idle]
         ELSE pc' = [pc EXCEPT ![w] = "record"] /\ call' = call
      /\ UNCHANGED <<serial, initial_secret, org_secret, key_map, copied, valid, taken,
                     overlaps, outdated>>
  BY DEF Push, Goto, verifiers
<1>2. TypeOK /\ Shape /\ Room /\ Fresh /\ Overlap /\ Signing /\ Keyed /\ Linked /\ Copies
  BY DEF IInv
<1>3. /\ w \in Writing /\ call[w] \in Local /\ e \in Event
      /\ e.id = call[w].id /\ e.prev_id = call[w].prev /\ e.id \in Id
      /\ rotating <=> call[w].new_secret # None
      /\ rotating => call[w].new_secret \in Secret /\ e.id \in RotationId
      /\ rotating => call[w].id \notin DOMAIN key_map
      /\ rotating => \A i \in DOMAIN events : events[i].id # e.id
      /\ e.id \in RotationId => e.id \in taken
      /\ ~rotating /\ e.id \in RotationId => \E i \in DOMAIN events : events[i].id = e.id
  BY <1>1, <1>2 DEF Writing, Shape, Fresh, Rotates
<1>4. /\ pc'[w] = IF rotating THEN "record" ELSE "idle"
      /\ rotating => call'[w] = call[w]
      /\ \A u \in Writer : u # w => pc'[u] = pc[u] /\ call'[u] = call[u]
      /\ \A v \in Verifier : pc'[v] = pc[v]
      /\ pc' \in [Writer \cup Verifier -> Place] /\ call' \in [Writer -> Local]
  <2>1. pc \in [Writer \cup Verifier -> Place] /\ call \in [Writer -> Local] /\ Idle \in Local
    BY <1>2 DEF Shape, Idle, Local
  <2>2. rotating <=> call[w].new_secret # None
    BY <1>3
  <2>3. CASE rotating
    BY <1>1, <2>1, <2>2, <2>3, ThreadsAssumption DEF Place
  <2>4. CASE ~rotating
    BY <1>1, <2>1, <2>2, <2>4, ThreadsAssumption DEF Place
  <2> QED BY <2>3, <2>4
<1>5. /\ Writing' = IF rotating THEN Writing ELSE Writing \ {w}
      /\ Pushing' = Pushing \ {w} /\ w \in Pushing
  BY <1>1, <1>3, <1>4 DEF Writing, Pushing
<1>6. /\ Len(events) \in Nat /\ Len(events') = Len(events) + 1
      /\ DOMAIN events = 1..Len(events) /\ DOMAIN events' = 1..(Len(events) + 1)
      /\ \A i \in 1..Len(events) : events'[i] = events[i]
      /\ events'[Len(events) + 1] = e
      /\ events' \in Seq(Event) /\ events' # <<>>
      /\ LastId' = e.id
  BY <1>1, <1>2, <1>3 DEF TypeOK, LastId
<1>7. \A i \in 1..(Len(events) + 1) : i \in 1..Len(events) \/ i = Len(events) + 1
  BY <1>6
<1> HIDE DEF e, rotating
<1>8. Room' /\ Len(events') <= MaxEvents
  <2>1. Cardinality(Pushing') = Cardinality(Pushing) - 1 /\ Cardinality(Pushing') \in Nat
    BY <1>5, WritingFacts, FS_RemoveElement, FS_CardinalityType
  <2> QED BY <1>2, <1>6, <2>1, WritingFacts, ThreadsAssumption DEF Room
<1>9. TypeOK'
  <2>1. IsKeyMap(key_map)' /\ \A v \in Verifier : IsKeyMap(copied[v])'
    BY <1>1, <1>2 DEF TypeOK, IsKeyMap
  <2>2. \A u \in Writer :
          /\ pc'[u] \in {"idle", "sign", "push", "record", "switch"}
          /\ pc'[u] # "idle" => /\ call'[u].id \in Id
                                /\ call'[u].prev \in Id \cup {None}
          /\ pc'[u] \in {"record", "switch"} => call'[u].new_secret \in Secret
          /\ pc'[u] \in {"push", "record", "switch"} => call'[u].signed \in Event
    BY <1>1, <1>2, <1>3, <1>4 DEF TypeOK, e
  <2> QED BY <1>1, <1>2, <1>4, <1>6, <1>8, <2>1, <2>2 DEF TypeOK
<1>10. Shape'
  BY <1>1, <1>2, <1>3, <1>4, <1>5 DEF Shape, e, rotating, Writing, Rotates
<1>11. \A u \in Writing' : u \in Writing /\ call'[u] = call[u]
  BY <1>4, <1>5 DEF Writing
<1>12. Fresh'
  <2>1. \A i \in DOMAIN events' : events'[i].id \in RotationId => events'[i].id \in taken
    BY <1>2, <1>3, <1>6, <1>7 DEF Fresh
  <2>2. \A i \in DOMAIN events : i \in DOMAIN events' /\ events'[i] = events[i]
    BY <1>6
  <2>3. \A u \in Writing' : ~Rotates(u)' /\ call'[u].id \in RotationId =>
          \E i \in DOMAIN events' : events'[i].id = call'[u].id
    BY <1>2, <1>11, <2>2 DEF Fresh, Rotates
  <2>4. ASSUME NEW u \in Writing', pc'[u] \in {"sign", "push"}, Rotates(u)'
        PROVE  \A i \in DOMAIN events' : events'[i].id # call'[u].id
    <3>1. /\ u # w /\ u \in Writing /\ pc[u] \in {"sign", "push"} /\ call'[u] = call[u]
          /\ Rotates(u)
      BY <1>4, <1>11, <2>4 DEF Writing, Rotates
    <3>2. \A i \in DOMAIN events : events[i].id # call[u].id
      BY <1>2, <3>1 DEF Fresh
    <3>3. call[u].id \in RotationId
      BY <1>2, <3>1 DEF Shape
    <3>4. call[u].id # e.id
      <4>1. CASE rotating
        BY <1>2, <1>3, <3>1, <4>1 DEF Fresh, rotating
      <4>2. CASE ~rotating
        BY <1>3, <3>2, <3>3, <4>2
      <4> QED BY <4>1, <4>2
    <3> QED BY <1>6, <1>7, <3>1, <3>2, <3>4
  <2>5. \A u \in Writing' : pc'[u] \in {"sign", "push", "record"} /\ Rotates(u)' =>
          call'[u].id \notin DOMAIN key_map
    <3> SUFFICES ASSUME NEW u \in Writing', pc'[u] \in {"sign", "push", "record"}, Rotates(u)'
                 PROVE  call[u].id \notin DOMAIN key_map
      BY <1>11
    <3>1. u \in Writer /\ u \in Writing /\ Rotates(u)
      BY <1>11 DEF Writing, Rotates
    <3>2. CASE u # w
      BY <1>2, <1>4, <3>1, <3>2 DEF Fresh
    <3> QED BY <1>3, <3>1, <3>2 DEF rotating
  <2>6. \A u \in Writer : pc'[u] = "switch" => pc[u] = "switch" /\ call'[u] = call[u]
    BY <1>4
  <2>7. /\ \A u \in Writing' : call'[u].id \in RotationId => call'[u].id \in taken
        /\ \A u, x \in Writing' :
             u # x /\ Rotates(u)' /\ Rotates(x)' => call'[u].id # call'[x].id
    BY <1>2, <1>11 DEF Fresh, Rotates
  <2>8. \A u \in Writer : pc'[u] = "switch" =>
          call'[u].id \in DOMAIN key_map /\ key_map[call'[u].id] = call'[u].new_secret
    BY <1>2, <2>6 DEF Fresh
  <2> QED BY <1>1, <2>1, <2>3, <2>4, <2>5, <2>7, <2>8 DEF Fresh
<1>13. Overlap'
  BY <1>1, <1>2, <1>11 DEF Overlap
<1>14. Signing' /\ Keyed'
  <2> SUFFICES ASSUME "rotate" \notin overlaps PROVE Signing' /\ Keyed'
    BY <1>1 DEF Signing, Keyed
  <2>1. \A u \in Writer : u # w => pc[u] \notin {"record", "switch"}
    <3> SUFFICES ASSUME NEW u \in Writer, u # w, pc[u] \in {"record", "switch"} PROVE FALSE
      OBVIOUS
    <3>1. u \in Writing /\ Rotates(u)
      BY <1>2 DEF Writing, Shape
    <3> QED BY <1>3, <3>1, RotatorAlone
  <2>2. \A u \in Writer : pc[u] # "switch" /\ pc'[u] # "switch"
    BY <1>1, <1>4, <2>1
  <2>3. Verify(e, org_secret)
    <3>1. e = Sign(call[w].id, Content[call[w].id], call[w].prev, org_secret)
      BY <1>1, <1>2 DEF Signing, e
    <3>2. call[w].id \in Id /\ call[w].prev \in Id \cup {None} /\ org_secret \in Secret
      BY <1>1, <1>2 DEF TypeOK
    <3> QED BY <3>1, <3>2, SignType
  <2>4. ASSUME RotationOnce'
        PROVE  /\ \A i \in DOMAIN events' : VerifiesAt(events', initial_secret, key_map, i)
               /\ InForce(events', initial_secret, key_map, Len(events') + 1, org_secret)
    <3>1. events \in Seq(Event) /\ RotationOnce
      BY <1>1, <1>2, <2>4, OnceBefore DEF TypeOK
    <3>2. e.id \notin DOMAIN key_map
      <4>1. ~rotating => e.id \notin RotationId
        BY <1>3, <1>6, <2>4 DEF RotationOnce
      <4>2. DOMAIN key_map \subseteq RotationId
        BY <1>2 DEF TypeOK, IsKeyMap
      <4> QED BY <1>3, <4>1, <4>2
    <3>3. /\ \A i \in DOMAIN events : VerifiesAt(events, initial_secret, key_map, i)
          /\ InForce(events, initial_secret, key_map, Len(events) + 1, org_secret)
      BY <1>2, <2>2, <3>1 DEF Keyed
    <3> HIDE DEF IInv, Push
    <3> QED BY <1>1, <2>3, <3>1, <3>2, <3>3, PushKeeps
  <2>5. \A u \in Writer : pc'[u] = "push" => pc[u] = "push" /\ call'[u] = call[u]
    BY <1>4
  <2>6. \A u \in Writer : pc'[u] \in {"record", "switch"} => LastOnce(call[u].id)'
    <3> SUFFICES ASSUME NEW u \in Writer, pc'[u] \in {"record", "switch"}
                 PROVE  LastOnce(call[u].id)'
      OBVIOUS
    <3>1. u = w /\ rotating /\ call'[u].id = e.id
      BY <1>3, <1>4, <2>1
    <3>2. \A i \in 1..(Len(events') - 1) : events'[i].id # e.id
      BY <1>3, <1>6, <3>1
    <3> QED BY <1>6, <3>1, <3>2 DEF LastOnce
  <2>7. \A u \in Writer : pc'[u] = "push" =>
          call'[u].signed = Sign(call'[u].id, Content[call'[u].id], call'[u].prev, org_secret)
    BY <1>2, <2>5 DEF Signing
  <2>8. Signing'
    BY <1>1, <2>6, <2>7 DEF Signing
  <2> QED BY <1>1, <2>2, <2>4, <2>8 DEF Keyed
<1>15. Linked'
  <2> SUFFICES ASSUME overlaps = {} PROVE Linked'
    BY <1>1 DEF Linked
  <2>1. \A u \in Writer : u # w => pc[u] = "idle"
    BY <1>2, <1>3 DEF Overlap, Writing
  <2>2. \A u \in Writer : pc'[u] \notin {"sign", "push"}
    BY <1>4, <2>1
  <2>3. e.prev_id = LastId
    BY <1>1, <1>2, <1>3 DEF Linked
  <2>4. LinkedAt(events', Len(events) + 1)
    BY <1>2, <1>6, <2>3, LastIdType DEF LinkedAt
  <2>5. ASSUME NEW i \in 1..Len(events) PROVE LinkedAt(events', i)
    <3>1. LinkedAt(events, i)
      BY <1>2, <1>6 DEF Linked
    <3>2. i # 1 => i - 1 \in 1..Len(events)
      BY <1>6
    <3> QED BY <1>6, <3>1, <3>2 DEF LinkedAt
  <2> QED BY <1>1, <1>6, <1>7, <2>2, <2>4, <2>5 DEF Linked
<1>16. Copies'
  <2>1. RotationOnce' => RotationOnce
    BY <1>1, <1>2, OnceBefore DEF TypeOK
  <2> QED BY <1>1, <1>2, <1>4, <2>1 DEF Copies
<1> QED BY <1>8, <1>9, <1>10, <1>12, <1>13, <1>14, <1>15, <1>16 DEF IInv

\* key_map[rotation id] = new_secret: from the event after the rotation on.
LEMMA RecordKeyInv ==
  ASSUME IInv, NEW w \in Writer, RecordKey(w) PROVE IInv'
<1> DEFINE id == call[w].id
           n == Len(events)
<1>1. /\ pc[w] = "record" /\ pc' = [pc EXCEPT ![w] = "switch"]
      /\ key_map' = [x \in DOMAIN key_map \cup {id} |->
                       IF x = id THEN call[w].new_secret ELSE key_map[x]]
      /\ outdated' = [v \in Verifier |-> outdated[v] \/ pc[v] = "check"]
      /\ UNCHANGED <<serial, events, initial_secret, org_secret, call, copied, valid, taken,
                     overlaps>>
  BY DEF RecordKey, Goto, verifiers
<1>2. TypeOK /\ Shape /\ Room /\ Fresh /\ Overlap /\ Signing /\ Keyed /\ Linked /\ Copies
  BY DEF IInv
<1>3. /\ pc'[w] = "switch"
      /\ \A u \in Writer : u # w => pc'[u] = pc[u]
      /\ \A v \in Verifier : pc'[v] = pc[v]
      /\ pc' \in [Writer \cup Verifier -> Place]
  BY <1>1, <1>2, ThreadsAssumption DEF Shape, Place
<1>4. /\ w \in Writing /\ id \in RotationId /\ id \in taken /\ id \notin DOMAIN key_map
      /\ call[w].new_secret \in Secret /\ Rotates(w)
  BY <1>1, <1>2 DEF Writing, Shape, Fresh
<1>5. Writing' = Writing /\ Pushing' = Pushing /\ LastId' = LastId
  BY <1>1, <1>3 DEF Writing, Pushing, LastId
<1>6. /\ DOMAIN key_map' = DOMAIN key_map \cup {id}
      /\ key_map'[id] = call[w].new_secret
      /\ \A x \in DOMAIN key_map : key_map'[x] = key_map[x]
  BY <1>1, <1>4
<1>7. outdated' \in [Verifier -> BOOLEAN]
      /\ \A v \in Verifier : outdated'[v] <=> outdated[v] \/ pc[v] = "check"
  BY <1>1
<1> HIDE DEF id, n
<1>8. TypeOK'
  <2>1. IsKeyMap(key_map)'
    BY <1>1, <1>2, <1>4, <1>6 DEF TypeOK, IsKeyMap
  <2>2. \A v \in Verifier : IsKeyMap(copied[v])'
    BY <1>1, <1>2 DEF TypeOK, IsKeyMap
  <2>3. \A u \in Writer :
          /\ pc'[u] \in {"idle", "sign", "push", "record", "switch"}
          /\ pc'[u] # "idle" => /\ call'[u].id \in Id
                                /\ call'[u].prev \in Id \cup {None}
          /\ pc'[u] \in {"record", "switch"} => call'[u].new_secret \in Secret
          /\ pc'[u] \in {"push", "record", "switch"} => call'[u].signed \in Event
    BY <1>1, <1>2, <1>3, <1>4 DEF TypeOK
  <2> QED BY <1>1, <1>2, <1>3, <1>7, <2>1, <2>2, <2>3 DEF TypeOK
<1>9. Shape'
  BY <1>1, <1>2, <1>3, <1>4, <1>5 DEF Shape, id, Writing, Rotates
<1>10. Room'
  BY <1>1, <1>2, <1>5 DEF Room
<1>11. Fresh'
  <2>1. ASSUME NEW u \in Writing', pc'[u] \in {"sign", "push", "record"}, Rotates(u)
        PROVE  call[u].id \notin DOMAIN key_map'
    <3>1. u # w /\ u \in Writing /\ pc[u] = pc'[u] /\ u \in Writer
      BY <1>3, <1>5, <2>1 DEF Writing
    <3>2. call[u].id # id
      BY <1>2, <1>4, <2>1, <3>1 DEF Fresh, id
    <3> QED BY <1>2, <1>6, <2>1, <3>1, <3>2 DEF Fresh
  <2>2. ASSUME NEW u \in Writer, pc'[u] = "switch"
        PROVE  call[u].id \in DOMAIN key_map' /\ key_map'[call[u].id] = call[u].new_secret
    <3>1. CASE u = w
      BY <1>6, <3>1 DEF id
    <3>2. CASE u # w
      BY <1>2, <1>3, <1>6, <2>2, <3>2 DEF Fresh, id
    <3> QED BY <3>1, <3>2
  <2>3. \A u \in Writing' : pc'[u] \in {"sign", "push"} => pc[u] = pc'[u]
    BY <1>3, <1>5 DEF Writing
  <2>4. /\ \A i \in DOMAIN events : events[i].id \in RotationId => events[i].id \in taken
        /\ \A u \in Writing' : call[u].id \in RotationId => call[u].id \in taken
        /\ \A u, x \in Writing' :
             u # x /\ Rotates(u) /\ Rotates(x) => call[u].id # call[x].id
        /\ \A u \in Writing' : ~Rotates(u) /\ call[u].id \in RotationId =>
             \E i \in DOMAIN events : events[i].id = call[u].id
    BY <1>2, <1>5 DEF Fresh
  <2>5. \A u \in Writing' : pc'[u] \in {"sign", "push"} /\ Rotates(u) =>
          \A i \in DOMAIN events : events[i].id # call[u].id
    BY <1>2, <1>5, <2>3 DEF Fresh
  <2>6. events' = events /\ call' = call /\ taken' = taken
    BY <1>1
  <2> QED BY <2>1, <2>2, <2>4, <2>5, <2>6 DEF Fresh, Rotates
<1>12. Overlap'
  BY <1>1, <1>2, <1>5 DEF Overlap
<1>13. Signing' /\ Keyed'
  <2> SUFFICES ASSUME "rotate" \notin overlaps PROVE Signing' /\ Keyed'
    BY <1>1 DEF Signing, Keyed
  <2>1. /\ n \in 1..n /\ n \in Nat \ {0} /\ DOMAIN events = 1..n
        /\ events[n].id = id
        /\ \A k \in 1..n : k # n => events[k].id # id
    <3>1. LastId = id /\ \A k \in 1..(Len(events) - 1) : events[k].id # id
      BY <1>1, <1>2 DEF Signing, LastOnce, id
    <3>2. LastId # None
      BY <1>4, <3>1, ThreadsAssumption DEF Id
    <3>3. n \in 1..n /\ LastId = events[n].id /\ DOMAIN events = 1..n /\ n \in Nat
      BY <1>2, <3>2, LastIdType DEF n
    <3>4. n \in Nat \ {0} /\ \A k \in 1..n : k # n => k \in 1..(n - 1)
      BY <3>3
    <3>5. \A k \in 1..(n - 1) : events[k].id # id
      BY <3>1 DEF n
    <3> QED BY <3>1, <3>3, <3>4, <3>5
  <2>2. \A u \in Writer : u # w => pc[u] = "idle" /\ pc'[u] = "idle"
    <3>1. \A u \in Writing : u = w
      BY <1>4, RotatorAlone
    <3> QED BY <1>3, <3>1 DEF Writing
  <2>3. \A i \in 1..n : Alike(events, key_map, events, key_map', i)
    <3> SUFFICES ASSUME NEW i \in 1..n, NEW k \in 1..(i - 1)
                 PROVE  /\ events[k].id \in DOMAIN key_map' <=> events[k].id \in DOMAIN key_map
                        /\ events[k].id \in DOMAIN key_map =>
                             key_map'[events[k].id] = key_map[events[k].id]
      BY DEF Alike
    <3>1. k \in 1..n /\ k # n
      BY <2>1
    <3> QED BY <1>6, <2>1, <3>1
  <2>4. RotationOnce => \A i \in DOMAIN events : VerifiesAt(events, initial_secret, key_map', i)
    <3> SUFFICES ASSUME RotationOnce, NEW i \in 1..n
                 PROVE  VerifiesAt(events, initial_secret, key_map', i)
      BY <2>1
    <3>1. VerifiesAt(events, initial_secret, key_map, i) /\ i \in Nat
      BY <1>2, <2>1 DEF Keyed
    <3>2. Alike(events, key_map, events, key_map', i)
      BY <2>3
    <3> QED BY <3>1, <3>2, AlikeVerifies
  <2>5. InForce(events, initial_secret, key_map', n + 1, call[w].new_secret)
    <3>1. events[n].id \in DOMAIN key_map' /\ key_map'[events[n].id] = call[w].new_secret
      BY <1>6, <2>1
    <3>2. InForce(events, initial_secret, key_map', n + 1,
                  IF events[n].id \in DOMAIN key_map' THEN key_map'[events[n].id] ELSE org_secret)
      BY <2>1, <3>1, KeyStep
    <3> QED BY <3>1, <3>2
  <2>6. \A u \in Writer : pc'[u] = "push" => FALSE
    BY <1>3, <2>2
  <2>7. \A u \in Writer : pc'[u] \in {"record", "switch"} => LastOnce(call[u].id)
    BY <1>1, <1>2, <1>3, <2>2 DEF Signing
  <2>8. \A u \in Writer : pc'[u] = "switch" =>
          InForce(events, initial_secret, key_map', Len(events) + 1, call[u].new_secret)
    BY <2>2, <2>5 DEF n
  <2>9. Signing'
    BY <1>1, <1>5, <2>6, <2>7 DEF Signing, LastOnce
  <2> QED BY <1>1, <1>3, <2>4, <2>8, <2>9 DEF Keyed, RotationOnce
<1>14. Linked'
  BY <1>1, <1>2, <1>3, <1>5 DEF Linked
<1>15. Copies'
  BY <1>1, <1>2, <1>3, <1>7 DEF Copies, RotationOnce
<1> QED BY <1>8, <1>9, <1>10, <1>11, <1>12, <1>13, <1>14, <1>15 DEF IInv

\* _org_secret = new_secret, and rotate_key() is over.
LEMMA SwitchKeyInv ==
  ASSUME IInv, NEW w \in Writer, SwitchKey(w) PROVE IInv'
<1>1. /\ pc[w] = "switch" /\ pc' = [pc EXCEPT ![w] = "idle"]
      /\ org_secret' = call[w].new_secret
      /\ call' = [call EXCEPT ![w] = Idle]
      /\ UNCHANGED <<serial, events, initial_secret, key_map, copied, valid, taken,
                     overlaps, outdated>>
  BY DEF SwitchKey, Goto, verifiers
<1>2. TypeOK /\ Shape /\ Room /\ Fresh /\ Overlap /\ Signing /\ Keyed /\ Linked /\ Copies
  BY DEF IInv
<1>3. /\ pc'[w] = "idle"
      /\ \A u \in Writer : u # w => pc'[u] = pc[u] /\ call'[u] = call[u]
      /\ \A v \in Verifier : pc'[v] = pc[v]
  BY <1>1, <1>2, ThreadsAssumption DEF Shape
<1>4. /\ Writing' = Writing \ {w} /\ w \in Writing /\ Pushing' = Pushing /\ LastId' = LastId
      /\ call[w].new_secret \in Secret /\ Rotates(w)
  BY <1>1, <1>2, <1>3 DEF Writing, Pushing, LastId, Shape, TypeOK
<1>5. TypeOK'
  <2>1. IsKeyMap(key_map)' /\ \A v \in Verifier : IsKeyMap(copied[v])'
    BY <1>1, <1>2 DEF TypeOK, IsKeyMap
  <2> QED BY <1>1, <1>2, <1>3, <1>4, <2>1 DEF TypeOK
<1>6. Shape'
  <2>1. pc' \in [Writer \cup Verifier -> Place] /\ call' \in [Writer -> Local]
    BY <1>1, <1>2 DEF Shape, Place, Idle, Local
  <2> QED BY <1>1, <1>2, <1>3, <1>4, <2>1 DEF Shape, Writing, Rotates
<1>7. Room'
  BY <1>1, <1>2, <1>4 DEF Room
<1>8. Fresh'
  BY <1>1, <1>2, <1>3, <1>4 DEF Fresh, Writing, Rotates
<1>9. Overlap'
  BY <1>1, <1>2, <1>3, <1>4 DEF Overlap, Writing
<1>10. Signing' /\ Keyed'
  <2> SUFFICES ASSUME "rotate" \notin overlaps PROVE Signing' /\ Keyed'
    BY <1>1 DEF Signing, Keyed
  <2>1. \A u \in Writer : pc'[u] = "idle"
    <3>1. \A u \in Writing : u = w
      BY <1>4, RotatorAlone
    <3> QED BY <1>3, <3>1 DEF Writing
  <2>2. RotationOnce => /\ \A i \in DOMAIN events : VerifiesAt(events, initial_secret, key_map, i)
                        /\ InForce(events, initial_secret, key_map, Len(events) + 1, org_secret')
    BY <1>1, <1>2 DEF Keyed
  <2>3. Signing'
    BY <2>1 DEF Signing
  <2> QED BY <1>1, <2>1, <2>2, <2>3 DEF Keyed, RotationOnce
<1>11. Linked'
  BY <1>1, <1>2, <1>3, <1>4 DEF Linked
<1>12. Copies'
  BY <1>1, <1>2, <1>3 DEF Copies, RotationOnce
<1> QED BY <1>5, <1>6, <1>7, <1>8, <1>9, <1>10, <1>11, <1>12 DEF IInv

-----------------------------------------------------------------------------
\* A step of a verifier leaves the writers alone.
LEMMA VerifierInv ==
  ASSUME IInv, NEW v \in Verifier, NEW place \in {"idle", "check", "report"},
         pc' = [pc EXCEPT ![v] = place],
         NEW m, NEW verdict \in BOOLEAN, NEW late \in BOOLEAN,
         copied' = [copied EXCEPT ![v] = m], IsKeyMap(m),
         valid' = [valid EXCEPT ![v] = verdict],
         outdated' = [outdated EXCEPT ![v] = late],
         UNCHANGED <<serial, events, initial_secret, org_secret, key_map, call, taken, overlaps>>,
         place = "check" /\ ~late => m = key_map,
         place = "report" /\ ~verdict => overlaps # {} \/ late \/ ~RotationOnce
  PROVE  IInv'
<1>1. TypeOK /\ Shape /\ Room /\ Fresh /\ Overlap /\ Signing /\ Keyed /\ Linked /\ Copies
  BY DEF IInv
<1>2. /\ \A u \in Writer : pc'[u] = pc[u]
      /\ pc'[v] = place /\ \A x \in Verifier : x # v => pc'[x] = pc[x]
      /\ pc' \in [Writer \cup Verifier -> Place]
  BY <1>1, ThreadsAssumption DEF Shape, Place
<1>3. /\ copied'[v] = m /\ valid'[v] = verdict /\ outdated'[v] = late
      /\ \A x \in Verifier : x # v =>
           copied'[x] = copied[x] /\ valid'[x] = valid[x] /\ outdated'[x] = outdated[x]
      /\ copied' = [x \in Verifier |-> copied'[x]]
      /\ valid' \in [Verifier -> BOOLEAN] /\ outdated' \in [Verifier -> BOOLEAN]
  BY <1>1 DEF Shape, TypeOK
<1>4. Writing' = Writing /\ Pushing' = Pushing /\ LastId' = LastId
  BY <1>2 DEF Writing, Pushing, LastId
<1>5. TypeOK'
  <2>1. \A x \in Verifier : IsKeyMap(copied[x])'
    BY <1>1, <1>3 DEF TypeOK, IsKeyMap
  <2>2. IsKeyMap(key_map)'
    BY <1>1 DEF TypeOK, IsKeyMap
  <2> QED BY <1>1, <1>2, <1>3, <2>1, <2>2 DEF TypeOK
<1>6. Shape'
  BY <1>1, <1>2, <1>3, <1>4 DEF Shape, Writing, Rotates
<1>7. Room' /\ Overlap'
  BY <1>1, <1>4 DEF Room, Overlap
<1>8. Fresh'
  BY <1>1, <1>2, <1>4 DEF Fresh, Writing, Rotates
<1>9. Signing' /\ Keyed'
  BY <1>1, <1>2, <1>4 DEF Signing, LastOnce, Keyed, RotationOnce
<1>10. Linked'
  BY <1>1, <1>2, <1>4 DEF Linked
<1>11. Copies'
  BY <1>1, <1>2, <1>3 DEF Copies, RotationOnce
<1> QED BY <1>5, <1>6, <1>7, <1>8, <1>9, <1>10, <1>11 DEF IInv

LEMMA CopyKeyMapInv ==
  ASSUME IInv, NEW v \in Verifier, CopyKeyMap(v) PROVE IInv'
<1>1. /\ pc' = [pc EXCEPT ![v] = "check"] /\ copied' = [copied EXCEPT ![v] = key_map]
      /\ valid' = [valid EXCEPT ![v] = valid[v]]
      /\ outdated' = [outdated EXCEPT ![v] = FALSE]
      /\ UNCHANGED <<serial, events, initial_secret, org_secret, key_map, call, taken, overlaps>>
  BY DEF CopyKeyMap, Goto, shared, IInv, TypeOK
<1>2. IsKeyMap(key_map) /\ valid[v] \in BOOLEAN
  BY DEF IInv, TypeOK
<1> QED BY <1>1, <1>2, VerifierInv

\* verify_chain() answers.  With the key map of the moment, no call that
\* overlapped another and no rotation event twice, everything verifies.
LEMMA CheckChainInv ==
  ASSUME IInv, NEW v \in Verifier, CheckChain(v) PROVE IInv'
<1> DEFINE verdict == Valid(events, initial_secret, copied[v])
<1>1. /\ pc[v] = "check" /\ pc' = [pc EXCEPT ![v] = "report"]
      /\ copied' = [copied EXCEPT ![v] = copied[v]]
      /\ valid' = [valid EXCEPT ![v] = verdict]
      /\ outdated' = [outdated EXCEPT ![v] = outdated[v]]
      /\ UNCHANGED <<serial, events, initial_secret, org_secret, key_map, call, taken, overlaps>>
  BY DEF CheckChain, Goto, shared, IInv, TypeOK, Shape
<1>2. IsKeyMap(copied[v]) /\ outdated[v] \in BOOLEAN
  BY DEF IInv, TypeOK
<1>3. verdict \in BOOLEAN
  BY DEF Valid
<1>4. overlaps = {} /\ ~outdated[v] /\ RotationOnce => verdict
  <2> SUFFICES ASSUME overlaps = {}, ~outdated[v], RotationOnce PROVE verdict
    OBVIOUS
  <2>1. copied[v] = key_map
    BY <1>1 DEF IInv, Copies
  <2>2. Tampered(events, initial_secret, key_map) = {}
    BY DEF IInv, Keyed, Tampered
  <2>3. Gaps(events) = {}
    BY DEF IInv, Linked, Gaps
  <2> QED BY <2>1, <2>2, <2>3 DEF Valid
<1> HIDE DEF verdict
<1> QED BY <1>1, <1>2, <1>3, <1>4, VerifierInv

LEMMA ReportInv ==
  ASSUME IInv, NEW v \in Verifier, Report(v) PROVE IInv'
<1>1. /\ pc' = [pc EXCEPT ![v] = "idle"] /\ copied' = [copied EXCEPT ![v] = EmptyMap]
      /\ valid' = [valid EXCEPT ![v] = TRUE]
      /\ outdated' = [outdated EXCEPT ![v] = FALSE]
      /\ UNCHANGED <<serial, events, initial_secret, org_secret, key_map, call, taken, overlaps>>
  BY DEF Report, Goto, shared
<1>2. IsKeyMap(EmptyMap)
  BY DEF IsKeyMap, EmptyMap
<1> QED BY <1>1, <1>2, VerifierInv

-----------------------------------------------------------------------------
LEMMA InitInv == Init => IInv
<1> SUFFICES ASSUME Init PROVE IInv
  OBVIOUS
<1>1. Writing = {} /\ Pushing = {}
  BY ThreadsAssumption DEF Init, Writing, Pushing
<1>2. \A w \in Writer : pc[w] = "idle"
  BY DEF Init
<1>3. \A v \in Verifier : pc[v] = "idle"
  BY DEF Init
<1>4. events = <<>> /\ Len(events) = 0 /\ DOMAIN events = {}
  BY DEF Init
<1>5. TypeOK
  BY <1>2, <1>3, <1>4, ThreadsAssumption DEF Init, TypeOK, IsKeyMap, EmptyMap
<1>6. Shape
  BY <1>1 DEF Init, Shape, Place, Local, Idle
<1>7. Room
  BY <1>1, <1>4, FS_EmptySet, ThreadsAssumption DEF Room
<1>8. Fresh /\ Overlap
  BY <1>1, <1>2, <1>4 DEF Fresh, Overlap, Init
<1>9. Signing /\ Keyed
  <2>1. InForce(events, initial_secret, key_map, 1, org_secret)
    BY DEF Init, InForce, NoSwitch
  <2> QED BY <1>2, <1>4, <2>1 DEF Signing, Keyed
<1>10. Linked /\ Copies
  BY <1>2, <1>3, <1>4 DEF Linked, Copies
<1> QED BY <1>5, <1>6, <1>7, <1>8, <1>9, <1>10 DEF IInv

LEMMA WriteInv ==
  ASSUME IInv, NEW w \in Writer, Write(w) PROVE IInv'
<1>1. ASSUME NEW id \in Id, CallAppend(w, id) PROVE IInv'
  BY <1>1, EnterInv DEF CallAppend, Id
<1>2. ASSUME NEW id \in RotationId, NEW s \in Secret, CallRotate(w, id, s) PROVE IInv'
  BY <1>2, EnterInv DEF CallRotate, Id
<1> QED BY <1>1, <1>2, SignWithInv, SignRaisesInv, PushInv, RecordKeyInv, SwitchKeyInv
        DEF Write

LEMMA Invariance == Spec => []IInv
<1>1. IInv /\ [Next]_vars => IInv'
  <2> SUFFICES ASSUME IInv, [Next]_vars PROVE IInv'
    OBVIOUS
  <2>1. ASSUME NEW w \in Writer, Write(w) PROVE IInv'
    BY <2>1, WriteInv
  <2>2. ASSUME NEW v \in Verifier, CopyKeyMap(v) \/ CheckChain(v) \/ Report(v) PROVE IInv'
    BY <2>2, CopyKeyMapInv, CheckChainInv, ReportInv
  <2>3. CASE UNCHANGED vars
    BY <2>3 DEF vars, IInv, TypeOK, IsKeyMap, Shape, Room, Fresh, Overlap, Signing, Keyed,
                Linked, Copies, Writing, Pushing, Rotates, LastOnce, LastId, RotationOnce
  <2> QED BY <2>1, <2>2, <2>3 DEF Next
<1> QED BY <1>1, InitInv, PTL DEF Spec

\* The type invariant of the shared stream holds in every reachable state,
\* whatever threads write and verify.
THEOREM TypeCorrect == Spec => []TypeOK
<1>1. IInv => TypeOK
  BY DEF IInv
<1> QED BY <1>1, Invariance, PTL

\* A verdict `invalid' on a stream nobody touched means that writing calls
\* have overlapped, that a rotation recorded its key between the two copies
\* that verify() makes (signing.py:574-578 and 369), or that a rotation event
\* was appended again (signing.py:388).
THEOREM AlarmIsExplained == Spec => []AlarmExplained
<1>1. IInv => AlarmExplained
  BY DEF IInv, Copies, AlarmExplained
<1> QED BY <1>1, Invariance, PTL

\* As long as no rotation overlapped another writing call and no rotation event
\* was appended again, every signature in the stream verifies, however many
\* appends ran at the same time (signing.py:497-503 and 549-556).
THEOREM OnlyRotationsTamperHolds == Spec => []OnlyRotationsTamper
<1>1. IInv => OnlyRotationsTamper
  BY DEF IInv, Keyed, OnlyRotationsTamper, Tampered
<1> QED BY <1>1, Invariance, PTL

-----------------------------------------------------------------------------
(***************************************************************************)
(* The stream of module AuditStream, in which a call is one step.  A       *)
(* rotation that has stored its event but not yet switched the key has not *)
(* happened there; Pending says that the event waiting for the switch is   *)
(* the one rotate_key() would store in one step.                           *)
(***************************************************************************)
Pending ==
  overlaps = {} =>
    \A w \in Rotating :
      events[Len(events)] = Sign(call[w].id, Content[call[w].id],
                                 events[Len(events)].prev_id, org_secret)

\* Without overlapping calls there is one writer.
LEMMA Alone ==
  ASSUME IInv, overlaps = {}, NEW w \in Writing, NEW u \in Writing
  PROVE  u = w
BY DEF IInv, Overlap

\* Steps that neither store nor switch leave what is pending as it is.
LEMMA PendingStays ==
  ASSUME Pending, UNCHANGED <<events, org_secret>>, overlaps' = {} => overlaps = {},
         \A w \in Rotating' : w \in Rotating /\ call'[w] = call[w]
  PROVE  Pending'
BY DEF Pending

LEMMA PendingStep ==
  ASSUME IInv, Pending, [Next]_vars PROVE Pending'
<1>1. /\ pc \in [Writer \cup Verifier -> Place] /\ call \in [Writer -> Local]
      /\ Rotating \subseteq Writer
  BY DEF IInv, Shape, Rotating
<1>2. ASSUME NEW w \in Writer, Write(w) PROVE Pending'
  <2>1. ASSUME NEW id, NEW s, Enter(w, id, s) PROVE Pending'
    <3>1. UNCHANGED <<events, org_secret>> /\ (overlaps' = {} => overlaps = {})
      BY <2>1 DEF Enter, shared
    <3>2. \A u \in Rotating' : u \in Rotating /\ call'[u] = call[u]
      BY <1>1, <2>1 DEF Enter, Goto, Rotating
    <3> QED BY <3>1, <3>2, PendingStays
  <2>2. CASE SignWith(w) \/ SignRaises(w)
    <3>1. UNCHANGED <<events, org_secret, overlaps>>
      BY <2>2 DEF SignWith, SignRaises, shared
    <3>2. \A u \in Rotating' : u \in Rotating /\ call'[u] = call[u]
      BY <1>1, <2>2 DEF SignWith, SignRaises, Goto, Rotating
    <3> QED BY <3>1, <3>2, PendingStays
  <2>3. CASE RecordKey(w)
    <3>1. UNCHANGED <<events, org_secret, overlaps, call>>
      BY <2>3 DEF RecordKey
    <3>2. \A u \in Rotating' : u \in Rotating
      BY <1>1, <2>3 DEF RecordKey, Goto, Rotating
    <3> QED BY <3>1, <3>2, PendingStays
  <2>4. CASE SwitchKey(w)
    <3>1. overlaps' = {} => Rotating' = {}
      <4> SUFFICES ASSUME overlaps' = {} PROVE \A u \in Writer : pc'[u] = "idle"
        BY DEF Rotating
      <4>1. \A u \in Writer : u # w => pc[u] = "idle"
        BY <2>4, Alone DEF SwitchKey, Writing
      <4> QED BY <1>1, <2>4, <4>1 DEF SwitchKey, Goto
    <3> QED BY <3>1 DEF Pending
  <2>5. CASE Push(w)
    <3> SUFFICES ASSUME overlaps' = {}, NEW u \in Rotating'
                 PROVE  events'[Len(events')] = Sign(call'[u].id, Content[call'[u].id],
                                                     events'[Len(events')].prev_id, org_secret')
      BY DEF Pending
    <3>1. /\ events' = Append(events, call[w].signed) /\ org_secret' = org_secret
          /\ overlaps = {} /\ pc[w] = "push" /\ events \in Seq(Event)
      BY <2>5 DEF Push, IInv, TypeOK
    <3>2. u = w
      <4>1. \A x \in Writer : x # w => pc[x] = "idle"
        BY <3>1, Alone DEF Writing
      <4> QED BY <1>1, <2>5, <4>1 DEF Push, Goto, Rotating
    <3>3. call' = call
      BY <1>1, <2>5, <3>2 DEF Push, Goto, Rotating
    <3>4. /\ call[w].signed = Sign(call[w].id, Content[call[w].id], call[w].prev, org_secret)
          /\ call[w].signed.prev_id = call[w].prev
      BY <3>1 DEF IInv, Signing, Shape, Writing
    <3>5. events'[Len(events')] = call[w].signed
      BY <3>1
    <3> QED BY <3>1, <3>2, <3>3, <3>4, <3>5
  <2> QED BY <1>2, <2>1, <2>2, <2>3, <2>4, <2>5 DEF Write, CallAppend, CallRotate
<1>3. ASSUME NEW v \in Verifier, CopyKeyMap(v) \/ CheckChain(v) \/ Report(v) PROVE Pending'
  <2>1. UNCHANGED <<events, org_secret, overlaps, call>>
    BY <1>3 DEF CopyKeyMap, CheckChain, Report, shared
  <2>2. \A u \in Rotating' : u \in Rotating
    BY <1>1, <1>3, ThreadsAssumption DEF CopyKeyMap, CheckChain, Report, Goto, Rotating
  <2> QED BY <2>1, <2>2, PendingStays
<1>4. CASE UNCHANGED vars
  BY <1>4 DEF vars, Pending, Rotating
<1> QED BY <1>2, <1>3, <1>4 DEF Next

-----------------------------------------------------------------------------
(* What the mapping does to a stream that grows, or does not.              *)

ByRefEvent == [id : Id, payload : Id, checksum : Digest, signature : Mac,
               prev_id : Id \cup {None}]

LEMMA ByReferenceType ==
  ASSUME NEW es \in Seq(Event)
  PROVE  /\ ByReference(es) \in Seq(ByRefEvent) /\ Len(ByReference(es)) = Len(es)
         /\ \A i \in 1..Len(es) : ByReference(es)[i].id = es[i].id
<1>1. \A i \in 1..Len(es) : es[i] \in Event
  OBVIOUS
<1>2. \A e \in Event : [e EXCEPT !.payload = e.id] \in ByRefEvent
                       /\ [e EXCEPT !.payload = e.id].id = e.id
  BY DEF Event, ByRefEvent
<1>3. ByReference(es) \in [1..Len(es) -> ByRefEvent]
  BY <1>1, <1>2 DEF ByReference
<1>4. \A i \in 1..Len(es) : ByReference(es)[i].id = es[i].id
  BY <1>1, <1>2 DEF ByReference
<1> QED BY <1>3, <1>4

\* An event signed from its id, its content and its predecessor.
LEMMA ByReferenceSigned ==
  ASSUME NEW id, NEW prev, NEW s
  PROVE  LET e == Sign(id, Content[id], prev, s)
         IN  [e EXCEPT !.payload = e.id] = SignObject(id, id, Content[id], prev, s)
BY DEF Sign, SignObject

LEMMA ByReferenceAppend ==
  ASSUME NEW es \in Seq(Event), NEW e \in Event
  PROVE  ByReference(Append(es, e)) = Append(ByReference(es), [e EXCEPT !.payload = e.id])
<1> DEFINE f == [e EXCEPT !.payload = e.id]
           long == Append(es, e)
<1>1. /\ long \in Seq(Event) /\ Len(long) = Len(es) + 1 /\ long[Len(es) + 1] = e
      /\ \A i \in 1..Len(es) : long[i] = es[i]
      /\ Len(es) \in Nat
  OBVIOUS
<1>2. f \in ByRefEvent
  BY DEF Event, ByRefEvent
<1>3. /\ ByReference(es) \in Seq(ByRefEvent) /\ Len(ByReference(es)) = Len(es)
      /\ ByReference(long) \in Seq(ByRefEvent) /\ Len(ByReference(long)) = Len(es) + 1
  BY <1>1, ByReferenceType
<1>4. \A i \in 1..Len(es) : ByReference(long)[i] = ByReference(es)[i]
  BY <1>1 DEF ByReference
<1>5. ByReference(long)[Len(es) + 1] = f
  <2> HIDE DEF long
  <2>1. Len(es) + 1 \in DOMAIN long
    BY <1>1
  <2> QED BY <1>1, <2>1 DEF ByReference
<1> HIDE DEF f, long
<1> QED BY <1>1, <1>2, <1>3, <1>4, <1>5 DEF f, long

\* The mapped state of a stream whose writers take turns.
LEMMA SettledFacts ==
  ASSUME IInv, overlaps = {}
  PROVE  /\ Settled \in Seq(Event)
         /\ Rotating = {} => Settled = events
         /\ \A w \in Rotating :
              /\ Rotating = {w} /\ Writing = {w} /\ call[w].id \in RotationId
              /\ LastOnce(call[w].id)
              /\ events # <<>> /\ Len(events) \in Nat /\ Len(Settled) = Len(events) - 1
              /\ events = Append(Settled, events[Len(events)])
              /\ events[Len(events)].id = call[w].id
<1>1. TypeOK /\ Shape /\ Signing /\ events \in Seq(Event)
  BY DEF IInv, TypeOK
<1>2. Rotating \subseteq Writing
  BY DEF Rotating, Writing
<1>3. ASSUME NEW w \in Rotating
      PROVE  /\ Rotating = {w} /\ Writing = {w} /\ call[w].id \in RotationId
             /\ LastId = call[w].id /\ LastOnce(call[w].id)
  <2>1. Rotating = {w} /\ Writing = {w}
    BY <1>2, <1>3, Alone
  <2>2. call[w].id \in RotationId
    BY <1>1, <1>2, <1>3 DEF Shape, Rotating
  <2>3. LastId = call[w].id /\ LastOnce(call[w].id)
    BY <1>1, <1>3 DEF Signing, LastOnce, Rotating
  <2> QED BY <2>1, <2>2, <2>3
<1>4. Rotating = {} => Settled = events
  BY DEF Settled
<1>5. ASSUME NEW w \in Rotating
      PROVE  /\ events # <<>> /\ Len(events) \in Nat /\ Len(Settled) = Len(events) - 1
             /\ Settled \in Seq(Event)
             /\ events = Append(Settled, events[Len(events)])
             /\ events[Len(events)].id = call[w].id
  <2>1. call[w].id # None
    BY <1>3, <1>5, ThreadsAssumption DEF Id
  <2>2. events # <<>> /\ LastId = events[Len(events)].id
    BY <1>3, <1>5, <2>1 DEF LastId
  <2>3. /\ Len(events) \in Nat \ {0} /\ Settled = [i \in 1..(Len(events) - 1) |-> events[i]]
        /\ \A i \in 1..Len(events) : events[i] \in Event
    BY <1>1, <1>5, <2>2 DEF Settled
  <2>4. Settled \in Seq(Event) /\ Len(Settled) = Len(events) - 1
    <3>1. Settled \in [1..(Len(events) - 1) -> Event] /\ Len(events) - 1 \in Nat
      BY <2>3
    <3> QED BY <3>1
  <2>5. \A i \in 1..Len(Settled) : Settled[i] = events[i]
    BY <1>1, <2>3
  <2>6. events = Append(Settled, events[Len(events)])
    BY <1>1, <2>3, <2>4, <2>5
  <2> QED BY <1>3, <1>5, <2>2, <2>3, <2>4, <2>6
<1> QED BY <1>1, <1>3, <1>4, <1>5

\* A step that neither stores nor switches is a stutter of the mapped stream.
LEMMA MappedStays ==
  ASSUME UNCHANGED <<serial, events, initial_secret, org_secret, key_map>>,
         Rotating' = Rotating, \A w \in Rotating : call'[w].id = call[w].id
  PROVE  UNCHANGED Stream!vars
<1>1. UNCHANGED Settled
  BY DEF Settled
<1>2. {call'[w].id : w \in Rotating'} = {call[w].id : w \in Rotating}
  OBVIOUS
<1>3. UNCHANGED SettledMap
  BY <1>2 DEF SettledMap
<1> QED BY <1>1, <1>3 DEF Stream!vars, StreamEvents, StreamKey, StreamMap, StreamResult

\* What module AuditStream assumes holds of the instance.
LEMMA StreamAssumptionHolds == Stream!StreamAssumption
BY ThreadsAssumption
   DEF Stream!StreamAssumption, Stream!Payload, Stream!Id, Id, Stream!Checksum, Checksum,
       Stream!Signature, Signature

LEMMA InitImplements == Init => Stream!Init
<1> SUFFICES ASSUME Init PROVE Stream!Init
  OBVIOUS
<1>1. Rotating = {}
  BY DEF Init, Rotating
<1>2. StreamEvents = <<>> /\ StreamResult = "none"
  BY <1>1 DEF Init, StreamEvents, StreamResult, Settled, ByReference
<1>3. StreamMap = EmptyMap
  BY <1>1 DEF Init, StreamMap, SettledMap, EmptyMap
<1>4. StreamKey = initial_secret /\ initial_secret \in Secret
  BY DEF Init, StreamKey
<1>5. Content \in [Id -> {Body, Marker}] /\ \A r \in RotationId : Content[r] = Marker
  BY DEF Content, Id
<1> QED BY <1>2, <1>3, <1>4, <1>5
        DEF Stream!Init, Stream!Id, Id, Stream!Payload, Stream!EmptyMap, EmptyMap

\* The mapped stream that stores an event signed with its key, and with the
\* id of its last event as predecessor.
LEMMA MappedAppend ==
  ASSUME NEW es \in Seq(Event), NEW id \in Id, NEW prev \in Id \cup {None},
         NEW s \in Secret,
         prev = IF es = <<>> THEN None ELSE es[Len(es)].id
  PROVE  /\ ByReference(Append(es, Sign(id, Content[id], prev, s)))
              = Append(ByReference(es), SignObject(id, id, Content[id], prev, s))
         /\ prev = IF ByReference(es) = <<>> THEN None
                   ELSE ByReference(es)[Len(ByReference(es))].id
<1> DEFINE e == Sign(id, Content[id], prev, s)
<1>1. e \in Event /\ [e EXCEPT !.payload = e.id] = SignObject(id, id, Content[id], prev, s)
  BY SignType, ByReferenceSigned
<1>2. ByReference(Append(es, e)) = Append(ByReference(es), [e EXCEPT !.payload = e.id])
  BY <1>1, ByReferenceAppend
<1>3. prev = IF ByReference(es) = <<>> THEN None
             ELSE ByReference(es)[Len(ByReference(es))].id
  <2>1. /\ ByReference(es) \in Seq(ByRefEvent) /\ Len(ByReference(es)) = Len(es)
        /\ \A i \in 1..Len(es) : ByReference(es)[i].id = es[i].id
    BY ByReferenceType
  <2>2. es # <<>> => Len(es) \in 1..Len(es)
    OBVIOUS
  <2> QED BY <2>1, <2>2
<1> HIDE DEF e
<1> QED BY <1>1, <1>2, <1>3 DEF e

\* Push of append() is the whole of append(); Push of rotate_key() is nothing
\* yet.
LEMMA PushImplements ==
  ASSUME IInv, IInv', serial, NEW w \in Writer, Push(w)
  PROVE  Stream!Next \/ UNCHANGED Stream!vars
<1> DEFINE id == call[w].id
           e == call[w].signed
<1>1. /\ pc[w] = "push" /\ events' = Append(events, e)
      /\ UNCHANGED <<serial, initial_secret, org_secret, key_map, overlaps>>
      /\ IF call[w].new_secret = None
         THEN pc' = [pc EXCEPT ![w] = "idle"]
         ELSE pc' = [pc EXCEPT ![w] = "record"] /\ call' = call
  BY DEF Push, Goto
<1>2. TypeOK /\ Shape /\ Room /\ Fresh /\ Signing /\ Linked /\ overlaps = {}
  BY DEF IInv, Overlap
<1>3. /\ w \in Writing /\ id \in Id /\ e \in Event /\ call[w].prev \in Id \cup {None}
      /\ org_secret \in Secret /\ events \in Seq(Event)
      /\ call[w].new_secret # None => id \notin DOMAIN key_map
  BY <1>1, <1>2 DEF Writing, Shape, TypeOK, Fresh, Rotates
<1>4. \A u \in Writer : u # w => pc[u] = "idle"
  BY <1>2, <1>3, Alone DEF Writing
<1>5. Rotating = {} /\ Settled = events
  BY <1>1, <1>4 DEF Rotating, Settled
<1>6. e = Sign(id, Content[id], LastId, org_secret) /\ call[w].prev = LastId
  BY <1>1, <1>2 DEF Signing, Linked
<1>7. CASE call[w].new_secret = None
  <2>1. Rotating' = {} /\ Settled' = events'
    BY <1>1, <1>2, <1>4, <1>7 DEF Shape, Rotating, Settled
  <2>2. SettledMap' = SettledMap
    BY <1>1, <1>5, <2>1 DEF SettledMap
  <2>3. id \in CallerId \cup (RotationId \cap Stream!IdsIn(ByReference(events)))
    <3>1. id \in RotationId => \E i \in DOMAIN events : events[i].id = id
      BY <1>2, <1>3, <1>7 DEF Fresh, Rotates
    <3>2. /\ DOMAIN ByReference(events) = DOMAIN events
          /\ \A i \in DOMAIN events : ByReference(events)[i].id = events[i].id
      <4>1. DOMAIN ByReference(events) = DOMAIN events
        BY DEF ByReference
      <4>2. \A i \in 1..Len(events) : ByReference(events)[i].id = events[i].id
        BY <1>3, ByReferenceType
      <4> QED BY <1>2, <4>1, <4>2, LastIdType
    <3> QED BY <1>3, <3>1, <3>2 DEF Stream!IdsIn, Id
  <2>4. /\ ByReference(events') = Append(ByReference(events),
                                         SignObject(id, id, Content[id], LastId, org_secret))
        /\ LastId = IF ByReference(events) = <<>> THEN None
                    ELSE ByReference(events)[Len(ByReference(events))].id
    <3>1. call[w].prev = IF events = <<>> THEN None ELSE events[Len(events)].id
      BY <1>6 DEF LastId
    <3> DEFINE p == call[w].prev
    <3>2. p \in Id \cup {None} /\ p = LastId
      BY <1>3, <1>6
    <3>3. /\ ByReference(Append(events, Sign(id, Content[id], p, org_secret)))
               = Append(ByReference(events), SignObject(id, id, Content[id], p, org_secret))
          /\ p = IF ByReference(events) = <<>> THEN None
                 ELSE ByReference(events)[Len(ByReference(events))].id
      BY <1>3, <3>1, <3>2, MappedAppend
    <3> HIDE DEF p
    <3> QED BY <1>1, <1>6, <3>2, <3>3
  <2>5. Len(ByReference(events)) < MaxEvents
    <3>1. Len(ByReference(events)) = Len(events) /\ Len(events) \in Nat
      BY <1>3, ByReferenceType
    <3>2. Len(events') <= MaxEvents /\ Len(events') = Len(events) + 1
      BY <1>1, <1>3 DEF IInv, TypeOK
    <3> QED BY <3>1, <3>2, ThreadsAssumption
  <2>6. events' # <<>>
    BY <1>1, <1>3
  <2>7. Content[id] \in {Body, Marker}
    BY <1>3 DEF Content
  <2> HIDE DEF id, e
  <2>8. Stream!AppendEvent(id)
    BY <1>1, <1>5, <2>1, <2>2, <2>3, <2>4, <2>5, <2>6, <2>7
       DEF Stream!AppendEvent, Stream!Appendable, Stream!Signed, Stream!SignObject, SignObject,
           Stream!Checksum, Checksum, Stream!Signature, Signature,
           Stream!LastId, StreamEvents, StreamKey, StreamMap, StreamResult
  <2> QED BY <1>3, <2>8 DEF Stream!Next, Stream!Id, Id
<1>8. CASE call[w].new_secret # None
  <2>1. Rotating' = {w} /\ call' = call
    BY <1>1, <1>2, <1>4, <1>8 DEF Shape, Rotating
  <2>2. Settled' = events
    BY <1>1, <1>3, <2>1 DEF Settled
  <2>3. SettledMap' = SettledMap
    <3>1. id \notin DOMAIN key_map /\ key_map' = key_map
      BY <1>1, <1>3, <1>8
    <3>2. {call'[u].id : u \in Rotating'} = {id} /\ {call[u].id : u \in Rotating} = {}
      BY <1>5, <2>1
    <3>3. DOMAIN key_map \ {id} = DOMAIN key_map
      BY <3>1
    <3> QED BY <3>1, <3>2, <3>3 DEF SettledMap
  <2> QED BY <1>1, <1>5, <2>2, <2>3
          DEF Stream!vars, StreamEvents, StreamKey, StreamMap, StreamResult
<1> QED BY <1>7, <1>8

\* key_map[id] = new_secret is not visible before the key is switched.
LEMMA RecordKeyImplements ==
  ASSUME IInv, NEW w \in Writer, RecordKey(w) PROVE UNCHANGED Stream!vars
<1>1. /\ pc[w] = "record" /\ pc' = [pc EXCEPT ![w] = "switch"]
      /\ key_map' = [x \in DOMAIN key_map \cup {call[w].id} |->
                       IF x = call[w].id THEN call[w].new_secret ELSE key_map[x]]
      /\ UNCHANGED <<serial, events, initial_secret, org_secret, call>>
  BY DEF RecordKey, Goto
<1>2. Rotating' = Rotating /\ w \in Rotating
  BY <1>1 DEF IInv, Shape, Rotating
<1>3. UNCHANGED Settled
  BY <1>1, <1>2 DEF Settled
<1>4. UNCHANGED SettledMap
  <2> DEFINE ids == {call[u].id : u \in Rotating}
  <2>1. call[w].id \in ids /\ {call'[u].id : u \in Rotating'} = ids
    BY <1>1, <1>2
  <2>2. DOMAIN key_map' \ ids = DOMAIN key_map \ ids
    BY <1>1, <2>1
  <2>3. \A x \in DOMAIN key_map \ ids : key_map'[x] = key_map[x]
    BY <1>1, <2>1
  <2> HIDE DEF ids
  <2>4. SettledMap = [x \in DOMAIN key_map \ ids |-> key_map[x]]
    BY DEF SettledMap, ids
  <2>5. SettledMap' = [x \in DOMAIN key_map' \ ids |-> key_map'[x]]
    BY <2>1 DEF SettledMap
  <2> QED BY <2>2, <2>3, <2>4, <2>5
<1> QED BY <1>1, <1>3, <1>4 DEF Stream!vars, StreamEvents, StreamKey, StreamMap, StreamResult

\* _org_secret = new_secret is where rotate_key() happens.
LEMMA SwitchKeyImplements ==
  ASSUME IInv, Pending, serial, NEW w \in Writer, SwitchKey(w)
  PROVE  Stream!Next
<1> DEFINE id == call[w].id
           s == call[w].new_secret
           prev == IF Settled = <<>> THEN None ELSE Settled[Len(Settled)].id
<1>1. /\ pc[w] = "switch" /\ pc' = [pc EXCEPT ![w] = "idle"] /\ org_secret' = s
      /\ UNCHANGED <<serial, events, initial_secret, key_map, overlaps>>
  BY DEF SwitchKey, Goto
<1>2. TypeOK /\ Shape /\ Fresh /\ Linked /\ overlaps = {}
  BY DEF IInv, Overlap
<1>3. w \in Rotating
  BY <1>1 DEF Rotating
<1>4. /\ Rotating = {w} /\ Writing = {w} /\ id \in RotationId
      /\ Settled \in Seq(Event) /\ Len(events) \in Nat \ {0}
      /\ Len(Settled) = Len(events) - 1
      /\ events = Append(Settled, events[Len(events)])
      /\ events[Len(events)].id = id /\ LastOnce(id)
  BY <1>2, <1>3, SettledFacts
<1>5. Rotating' = {} /\ Settled' = events
  <2>1. \A u \in Writer : u # w => pc[u] = "idle"
    BY <1>4 DEF Writing
  <2> QED BY <1>1, <1>2, <2>1 DEF Shape, Rotating, Settled
<1>6. /\ s \in Secret /\ org_secret \in Secret /\ id \in DOMAIN key_map /\ key_map[id] = s
      /\ id \in Id /\ DOMAIN key_map \subseteq RotationId
  BY <1>1, <1>2, <1>4 DEF TypeOK, IsKeyMap, Fresh, Id
<1>7. prev \in Id \cup {None} /\ events[Len(events)].prev_id = prev
  <2>1. LinkedAt(events, Len(events))
    BY <1>2, <1>4 DEF Linked
  <2>2. CASE Len(events) = 1
    BY <1>4, <2>1, <2>2 DEF LinkedAt
  <2>3. CASE Len(events) # 1
    <3>1. Settled # <<>> /\ Len(Settled) \in 1..Len(Settled)
      BY <1>4, <2>3
    <3>2. Settled[Len(Settled)] = events[Len(events) - 1] /\ Settled[Len(Settled)] \in Event
      BY <1>4, <3>1
    <3> QED BY <2>1, <2>3, <3>1, <3>2, EventIds DEF LinkedAt
  <2> QED BY <2>2, <2>3
<1>8. events = Append(Settled, Sign(id, Content[id], prev, org_secret))
  BY <1>2, <1>3, <1>4, <1>7 DEF Pending
<1> HIDE DEF prev
<1>9. /\ ByReference(events) = Append(ByReference(Settled),
                                      SignObject(id, id, Content[id], prev, org_secret))
      /\ prev = IF ByReference(Settled) = <<>> THEN None
                ELSE ByReference(Settled)[Len(ByReference(Settled))].id
  BY <1>4, <1>6, <1>7, <1>8, MappedAppend DEF prev
<1>10. Len(ByReference(Settled)) < MaxEvents
  BY <1>2, <1>4, ByReferenceType, ThreadsAssumption DEF TypeOK
<1>11. id \notin Stream!IdsIn(ByReference(Settled))
  <2>1. ASSUME NEW i \in 1..Len(Settled) PROVE ByReference(Settled)[i].id # id
    <3>1. ByReference(Settled)[i].id = events[i].id
      BY <1>4, <2>1, ByReferenceType
    <3>2. i \in 1..(Len(events) - 1)
      BY <1>4, <2>1
    <3> QED BY <1>4, <3>1, <3>2 DEF LastOnce
  <2>2. DOMAIN ByReference(Settled) = 1..Len(Settled)
    BY <1>4 DEF ByReference
  <2> QED BY <2>1, <2>2 DEF Stream!IdsIn
<1>12. SettledMap' = [x \in DOMAIN SettledMap \cup {id} |->
                        IF x = id THEN s ELSE SettledMap[x]]
  <2>1. SettledMap = [x \in DOMAIN key_map \ {id} |-> key_map[x]]
    BY <1>4 DEF SettledMap
  <2>2. SettledMap' = [x \in DOMAIN key_map |-> key_map[x]]
    BY <1>1, <1>5 DEF SettledMap
  <2>3. DOMAIN SettledMap \cup {id} = DOMAIN key_map
    BY <1>6, <2>1
  <2> QED BY <1>6, <2>1, <2>2, <2>3
<1>13. events # <<>>
  BY <1>4
<1> HIDE DEF id, s
<1>14. Stream!RotateKey(id, s)
  BY <1>1, <1>4, <1>5, <1>6, <1>9, <1>10, <1>11, <1>12, <1>13
     DEF Stream!RotateKey, Stream!Signed, Stream!SignObject, SignObject, Stream!Bind,
         Stream!Checksum, Checksum, Stream!Signature, Signature,
         Stream!LastId, StreamEvents, StreamKey, StreamMap, StreamResult
<1> QED BY <1>4, <1>6, <1>14 DEF Stream!Next

LEMMA StepImplements ==
  ASSUME IInv, IInv', Pending, [Next]_vars
  PROVE  Stream!Next \/ UNCHANGED Stream!vars
<1>1. /\ pc \in [Writer \cup Verifier -> Place] /\ call \in [Writer -> Local]
      /\ serial \in BOOLEAN
  BY DEF IInv, Shape
<1>2. UNCHANGED <<serial, initial_secret>>
  BY DEF Next, Write, CallAppend, CallRotate, Enter, SignWith, SignRaises, Push, RecordKey,
         SwitchKey, CopyKeyMap, CheckChain, Report, shared, vars
<1>3. CASE ~serial
  BY <1>2, <1>3 DEF Stream!vars, StreamEvents, StreamKey, StreamMap, StreamResult
<1>4. ASSUME serial, NEW w \in Writer, Write(w)
      PROVE  Stream!Next \/ UNCHANGED Stream!vars
  <2>1. ASSUME NEW id, NEW s, Enter(w, id, s) PROVE UNCHANGED Stream!vars
    <3>1. /\ pc[w] = "idle" /\ pc' = [pc EXCEPT ![w] = "sign"]
          /\ UNCHANGED <<serial, events, initial_secret, org_secret, key_map>>
          /\ \A u \in Writer : u # w => call'[u] = call[u]
      BY <1>1, <2>1 DEF Enter, Goto, shared
    <3>2. Rotating' = Rotating /\ w \notin Rotating /\ Rotating \subseteq Writer
      BY <1>1, <3>1 DEF Rotating
    <3> QED BY <3>1, <3>2, MappedStays
  <2>2. ASSUME SignWith(w) \/ SignRaises(w) PROVE UNCHANGED Stream!vars
    <3>1. /\ pc[w] = "sign" /\ \E place \in {"push", "idle"} : pc' = [pc EXCEPT ![w] = place]
          /\ UNCHANGED <<serial, events, initial_secret, org_secret, key_map>>
          /\ \A u \in Writer : u # w => call'[u] = call[u]
      BY <1>1, <2>2 DEF SignWith, SignRaises, Goto, shared
    <3>2. Rotating' = Rotating /\ w \notin Rotating /\ Rotating \subseteq Writer
      BY <1>1, <3>1 DEF Rotating
    <3> QED BY <3>1, <3>2, MappedStays
  <2> QED BY <1>4, <2>1, <2>2, PushImplements, RecordKeyImplements, SwitchKeyImplements
          DEF Write, CallAppend, CallRotate
<1>5. ASSUME NEW v \in Verifier, CopyKeyMap(v) \/ CheckChain(v) \/ Report(v)
      PROVE  UNCHANGED Stream!vars
  <2>1. /\ UNCHANGED <<serial, events, initial_secret, org_secret, key_map, call>>
        /\ \E place \in {"check", "report", "idle"} : pc' = [pc EXCEPT ![v] = place]
    BY <1>5 DEF CopyKeyMap, CheckChain, Report, Goto, shared
  <2>2. Rotating' = Rotating
    BY <1>1, <2>1, ThreadsAssumption DEF Rotating
  <2> QED BY <2>1, <2>2, MappedStays
<1>6. CASE UNCHANGED vars
  <2>1. UNCHANGED <<serial, events, initial_secret, org_secret, key_map, call, pc>>
    BY <1>6 DEF vars
  <2>2. Rotating' = Rotating
    BY <2>1 DEF Rotating
  <2> QED BY <2>1, <2>2, MappedStays
<1> QED BY <1>1, <1>3, <1>4, <1>5, <1>6 DEF Next

\* With one writing call at a time, and any number of calls of verify() beside
\* it, the shared stream behaves as the stream of module AuditStream, in which
\* append() and rotate_key() are one step (signing.py:497-503 and 549-558).
THEOREM SerialImplements == Spec => ImplementsAuditStream
<1>1. Init => Stream!Init
  BY InitImplements
<1>2. Init => Pending
  BY DEF Init, Pending, Rotating
<1>3. IInv /\ Pending /\ [Next]_vars => Pending'
  BY PendingStep
<1>4. IInv /\ IInv' /\ Pending /\ [Next]_vars => [Stream!Next]_Stream!vars
  BY StepImplements
<1>5. Spec => []Pending
  BY <1>2, <1>3, Invariance, PTL DEF Spec
<1>6. Spec => Stream!Spec
  BY <1>1, <1>4, <1>5, Invariance, PTL DEF Spec, Stream!Spec
<1> QED BY <1>6 DEF ImplementsAuditStream
=============================================================================
