------------------------- MODULE AuditStreamThreads -------------------------
(***************************************************************************)
(* One signing.AuditStream shared by threads.  The class has no lock, so a *)
(* thread may be switched out between any two steps of append(), of        *)
(* rotate_key() and of verify(); a step of this module is a read or write  *)
(* of one attribute, or a list or dict operation the interpreter runs      *)
(* without a switch.                                                       *)
(*                                                                         *)
(* `serial` tells the two ways to use the stream apart: the application    *)
(* lets one thread write at a time (verify() stays free), or it does not.  *)
(* Payloads are not touched after signing; module AuditStream has that.    *)
(***************************************************************************)
EXTENDS Signing, FiniteSets

CONSTANTS
  Writer,      \* threads that call append() and rotate_key()
  Verifier,    \* threads that call verify()
  CallerId,    \* ids of the events the application builds
  RotationId,  \* ids that rotate_key() draws from the ULID generator
  Secret,      \* keys that _validate_secret accepts
  Body,        \* the payload of an event of the application
  Marker,      \* the payload of a key-rotation event
  MaxEvents    \* bound: the stream is not grown past this length

Id == CallerId \cup RotationId

ASSUME ThreadsAssumption ==
  /\ Writer \cap Verifier = {}
  /\ CallerId \cap RotationId = {}
  /\ None \notin Id \cup Secret
  /\ \A p \in {Body, Marker} :
       /\ Checksum(p) # None
       /\ \A i \in Id, v \in Id \cup {None}, s \in Secret :
            Signature(i, Checksum(p), v, s) # None
  /\ IsFiniteSet(Writer)
  /\ MaxEvents \in Nat

VARIABLES
  serial,          \* does the application serialise its writers
  events,          \* _events
  initial_secret,  \* _initial_secret
  org_secret,      \* _org_secret
  key_map,         \* _key_map
  pc,              \* pc[t]: the next step of thread t
  call,            \* call[w]: locals of append() and rotate_key()
  taken,           \* rotation ids drawn so far
  copied,          \* copied[v]: dict(key_map) in verify()
  valid,           \* valid[v]: the verdict of the last verify()
  overlaps,        \* history: kinds of the writing calls that overlapped another
  outdated         \* history: outdated[v]: a key was recorded since v copied the map

shared  == <<serial, events, initial_secret, org_secret, key_map>>
verifiers == <<copied, valid>>
vars == <<serial, events, initial_secret, org_secret, key_map, pc, call, taken,
          copied, valid, overlaps, outdated>>

Idle == [id |-> None, new_secret |-> None, prev |-> None, signed |-> None]

Content == [id \in Id |-> IF id \in RotationId THEN Marker ELSE Body]

LastId == IF events = <<>> THEN None ELSE events[Len(events)].id

IdsIn(es) == {es[i].id : i \in DOMAIN es}

Init ==
  /\ serial \in BOOLEAN
  /\ events = <<>>
  /\ initial_secret \in Secret
  /\ org_secret = initial_secret
  /\ key_map = EmptyMap
  /\ pc = [t \in Writer \cup Verifier |-> "idle"]
  /\ call = [w \in Writer |-> Idle]
  /\ taken = {}
  /\ copied = [v \in Verifier |-> EmptyMap]
  /\ valid = [v \in Verifier |-> TRUE]
  /\ overlaps = {}
  /\ outdated = [v \in Verifier |-> FALSE]

-----------------------------------------------------------------------------
(* The writers. *)

Goto(t, place) == pc' = [pc EXCEPT ![t] = place]

Writing == {w \in Writer : pc[w] # "idle"}

\* rotate_key() brings a key, append() does not.
Kind(new_secret) == IF new_secret = None THEN "append" ELSE "rotate"

\* A writing call begins; nothing another thread sees happens before it reads
\* the last event.  In rotate_key() the key is validated and the event built.
Enter(w, id, new_secret) ==
  /\ pc[w] = "idle"
  /\ serial => Writing = {}
  /\ Len(events) + Cardinality(Writing) < MaxEvents
  /\ overlaps' = IF Writing = {} THEN overlaps
                 ELSE overlaps \cup {Kind(new_secret)}
                               \cup {Kind(call[u].new_secret) : u \in Writing}
  /\ call' = [call EXCEPT ![w] = [id |-> id, new_secret |-> new_secret, prev |-> LastId,
                                  signed |-> None]]
  /\ Goto(w, "sign")
  /\ UNCHANGED <<shared, verifiers, outdated>>

\* append() of an event of the application, appended before or not, or of an
\* event that the stream has handed out, a rotation event included.
CallAppend(w, id) ==
  /\ id \in CallerId \cup (RotationId \cap IdsIn(events))
  /\ Enter(w, id, None)
  /\ UNCHANGED taken

\* Mutant of CallRotate: the id of a rotation event may be drawn again.
CallRotateAgain(w, id, new_secret) ==
  /\ id \in RotationId \ taken
  /\ Enter(w, id, new_secret)
  /\ UNCHANGED taken

CallRotate(w, id, new_secret) ==
  /\ id \in RotationId \ taken
  /\ taken' = taken \cup {id}
  /\ Enter(w, id, new_secret)

\* append() reads the key and signs.
SignWith(w) ==
  /\ pc[w] = "sign"
  /\ LET c == call[w] IN
       call' = [call EXCEPT ![w].signed = Sign(c.id, Content[c.id], c.prev, org_secret)]
  /\ Goto(w, "push")
  /\ UNCHANGED <<shared, verifiers, taken, overlaps, outdated>>

\* json.dumps rejects the payload, or the metadata of a rotation: the call ends
\* with TypeError.  (Which payloads it rejects is in module AuditStream.)
SignRaises(w) ==
  /\ pc[w] = "sign"
  /\ call' = [call EXCEPT ![w] = Idle]
  /\ Goto(w, "idle")
  /\ UNCHANGED <<shared, verifiers, taken, overlaps, outdated>>

\* events_list.append(signed); append() returns, to the caller or to rotate_key().
Push(w) ==
  /\ pc[w] = "push"
  /\ events' = Append(events, call[w].signed)
  /\ IF call[w].new_secret = None
     THEN Goto(w, "idle") /\ call' = [call EXCEPT ![w] = Idle]
     ELSE Goto(w, "record") /\ UNCHANGED call
  /\ UNCHANGED <<serial, initial_secret, org_secret, key_map, verifiers, taken,
                 overlaps, outdated>>

\* Mutant of RecordKey: the key that is replaced is recorded.
RecordOldKey(w) ==
  /\ pc[w] = "record"
  /\ key_map' = [x \in DOMAIN key_map \cup {call[w].id} |->
                   IF x = call[w].id THEN org_secret ELSE key_map[x]]
  /\ Goto(w, "switch")
  /\ outdated' = [v \in Verifier |-> outdated[v] \/ pc[v] = "check"]
  /\ UNCHANGED <<serial, events, initial_secret, org_secret, call, verifiers,
                 taken, overlaps>>

\* key_map[signed_rotation.event_id] = new_secret
RecordKey(w) ==
  /\ pc[w] = "record"
  /\ key_map' = [x \in DOMAIN key_map \cup {call[w].id} |->
                   IF x = call[w].id THEN call[w].new_secret ELSE key_map[x]]
  /\ Goto(w, "switch")
  /\ outdated' = [v \in Verifier |-> outdated[v] \/ pc[v] = "check"]
  /\ UNCHANGED <<serial, events, initial_secret, org_secret, call, verifiers,
                 taken, overlaps>>

\* Mutant of SwitchKey: the key of later appends stays the old one.
SwitchKeyForgotten(w) ==
  /\ pc[w] = "switch"
  /\ call' = [call EXCEPT ![w] = Idle]
  /\ Goto(w, "idle")
  /\ UNCHANGED <<shared, verifiers, taken, overlaps, outdated>>

\* _org_secret = new_secret; rotate_key() returns.
SwitchKey(w) ==
  /\ pc[w] = "switch"
  /\ org_secret' = call[w].new_secret
  /\ call' = [call EXCEPT ![w] = Idle]
  /\ Goto(w, "idle")
  /\ UNCHANGED <<serial, events, initial_secret, key_map, verifiers, taken,
                 overlaps, outdated>>

-----------------------------------------------------------------------------
(* The verifiers. *)

\* verify() copies the key map first, for the call of verify_chain().
CopyKeyMap(v) ==
  /\ pc[v] = "idle"
  /\ copied' = [copied EXCEPT ![v] = key_map]
  /\ outdated' = [outdated EXCEPT ![v] = FALSE]
  /\ Goto(v, "check")
  /\ UNCHANGED <<shared, call, taken, valid, overlaps>>

\* Mutant of CheckChain: verify() does not pass the key map on.
CheckChainOneKey(v) ==
  /\ pc[v] = "check"
  /\ valid' = [valid EXCEPT ![v] = Valid(events, initial_secret, EmptyMap)]
  /\ Goto(v, "report")
  /\ UNCHANGED <<shared, call, taken, copied, overlaps, outdated>>

\* verify_chain() then copies the list, and what follows reads the copies.
CheckChain(v) ==
  /\ pc[v] = "check"
  /\ valid' = [valid EXCEPT ![v] = Valid(events, initial_secret, copied[v])]
  /\ Goto(v, "report")
  /\ UNCHANGED <<shared, call, taken, copied, overlaps, outdated>>

Report(v) ==
  /\ pc[v] = "report"
  /\ copied' = [copied EXCEPT ![v] = EmptyMap]
  /\ valid' = [valid EXCEPT ![v] = TRUE]
  /\ outdated' = [outdated EXCEPT ![v] = FALSE]
  /\ Goto(v, "idle")
  /\ UNCHANGED <<shared, call, taken, overlaps>>

Write(w) ==
  \/ \E id \in Id : CallAppend(w, id)
  \/ \E id \in RotationId, s \in Secret : CallRotate(w, id, s)
  \/ SignWith(w) \/ SignRaises(w) \/ Push(w) \/ RecordKey(w) \/ SwitchKey(w)

Next ==
  \/ \E w \in Writer : Write(w)
  \/ \E v \in Verifier : CopyKeyMap(v) \/ CheckChain(v) \/ Report(v)

Spec == Init /\ [][Next]_vars

-----------------------------------------------------------------------------
Digest == {Checksum(Body), Checksum(Marker)}

Mac == {Signature(i, Checksum(p), v, s) :
          i \in Id, p \in {Body, Marker}, v \in Id \cup {None}, s \in Secret}

Event == [id : Id, payload : {Body, Marker}, checksum : Digest, signature : Mac,
          prev_id : Id \cup {None}]

IsKeyMap(m) == DOMAIN m \subseteq taken /\ \A x \in DOMAIN m : m[x] \in Secret

TypeOK ==
  /\ events \in Seq(Event) /\ Len(events) <= MaxEvents
  /\ initial_secret \in Secret /\ org_secret \in Secret
  /\ taken \subseteq RotationId
  /\ IsKeyMap(key_map) /\ \A v \in Verifier : IsKeyMap(copied[v])
  /\ \A w \in Writer :
       /\ pc[w] \in {"idle", "sign", "push", "record", "switch"}
       /\ pc[w] # "idle" => /\ call[w].id \in Id
                            /\ call[w].prev \in Id \cup {None}
       /\ pc[w] \in {"record", "switch"} => call[w].new_secret \in Secret
       /\ pc[w] \in {"push", "record", "switch"} => call[w].signed \in Event
  /\ \A v \in Verifier : pc[v] \in {"idle", "check", "report"}
  /\ valid \in [Verifier -> BOOLEAN] /\ outdated \in [Verifier -> BOOLEAN]
  /\ overlaps \subseteq {"append", "rotate"}

\* No rotation event was appended a second time.
RotationOnce ==
  \A i, j \in DOMAIN events :
    events[i].id \in RotationId /\ events[i].id = events[j].id => i = j

\* verify() raises a false alarm about a stream nobody tampered with for three
\* reasons only: two writing calls overlapped at some time; a rotation recorded
\* its key after verify() had copied the map and before verify_chain() copied
\* the list (signing.py:574-578 and 369), so that the copy of the map is older
\* than the events checked with it; or a rotation event was appended again, at
\* which verify_chain() goes back to its key (signing.py:388).
AlarmExplained ==
  \A v \in Verifier :
    pc[v] = "report" /\ ~valid[v] => overlaps # {} \/ outdated[v] \/ ~RotationOnce

\* Appends that overlap each other fork the chain, which shows as gaps; every
\* signature still verifies.  Unless a rotation event is appended again, it
\* takes a rotation that overlaps another writing call to leave events that
\* verify() will call tampered for ever (signing.py:500-502 between 549 and 556).
OnlyRotationsTamper ==
  "rotate" \notin overlaps /\ RotationOnce =>
    Tampered(events, initial_secret, key_map) = {}

\* With one writing call at a time, and however many calls of verify() beside
\* it, the stream is the one of module AuditStream: rotate_key() takes effect
\* as a whole when it switches the key.
Rotating == {w \in Writer : pc[w] \in {"record", "switch"}}

Settled == IF Rotating = {} THEN events
           ELSE [i \in 1..(Len(events) - 1) |-> events[i]]

SettledMap == [x \in DOMAIN key_map \ {call[w].id : w \in Rotating} |-> key_map[x]]

\* An event in AuditStream holds its payload by reference.
ByReference(es) == [i \in DOMAIN es |-> [es[i] EXCEPT !.payload = es[i].id]]

StreamEvents == IF serial THEN ByReference(Settled) ELSE <<>>

StreamKey == IF serial THEN org_secret ELSE initial_secret

StreamMap == IF serial THEN SettledMap ELSE EmptyMap

StreamResult == IF serial /\ Settled # <<>> THEN "ok" ELSE "none"

Stream == INSTANCE AuditStream WITH
  Blank          <- {},
  Serialisable   <- {Body, Marker},
  Unserialisable <- {},
  events         <- StreamEvents,
  org_secret     <- StreamKey,
  key_map        <- StreamMap,
  content        <- Content,
  result         <- StreamResult

ImplementsAuditStream == Stream!Spec
=============================================================================
