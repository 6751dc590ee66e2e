---------------------------- MODULE AuditStream ----------------------------
(***************************************************************************)
(* signing.AuditStream used by one thread: append(), rotate_key() and      *)
(* verify(), each call one step, with the ways a call can raise.           *)
(*                                                                         *)
(* An event is known by its id.  sign() copies the top level of a payload  *)
(* only, so a nested object stays shared with the caller: `content` is     *)
(* what the payload of each event holds now, and the caller may change it  *)
(* after the event was signed.                                             *)
(***************************************************************************)
EXTENDS Signing

CONSTANTS
  CallerId,        \* ids of the events the application builds
  RotationId,      \* ids that rotate_key() draws from the ULID generator
  Secret,          \* keys that _validate_secret accepts
  Blank,           \* keys that it rejects: empty or whitespace-only
  Serialisable,    \* payloads json.dumps can encode
  Unserialisable,  \* payloads it cannot: a datetime or a Redactable inside
  Marker,          \* the payload of a key-rotation event
  MaxEvents        \* bound: the stream is not grown past this length

Id == CallerId \cup RotationId
Payload == Serialisable \cup Unserialisable

ASSUME StreamAssumption ==
  /\ CallerId \cap RotationId = {}
  /\ Serialisable \cap Unserialisable = {}
  /\ Marker \in Serialisable
  /\ MaxEvents \in Nat
  /\ None \notin Id
  /\ \A p \in Payload :
       /\ Checksum(p) # None
       /\ \A i \in Id, v \in Id \cup {None}, s \in Secret :
            Signature(i, Checksum(p), v, s) # None

VARIABLES
  events,          \* _events: the signed events, in order
  initial_secret,  \* _initial_secret: what verify() starts with
  org_secret,      \* _org_secret: what append() signs with
  key_map,         \* _key_map: rotation event id -> secret after it
  content,         \* what the payload of each event holds now
  result           \* how the last call ended

vars == <<events, initial_secret, org_secret, key_map, content, result>>

Results == {"none", "ok", "SigningError", "TypeError"}

\* The stored form of a signed event: its payload is a reference, the id of
\* the event whose payload object it shares.
Stored == [id        : Id,
           payload   : Id,
           checksum  : {Checksum(p) : p \in Serialisable},
           signature : {Signature(i, Checksum(p), v, s) :
                          i \in Id, p \in Serialisable,
                          v \in Id \cup {None}, s \in Secret},
           prev_id   : Id \cup {None}]

\* The events as a verifier reads them: the payload is the present content.
Log == [i \in DOMAIN events |->
          [events[i] EXCEPT !.payload = content[events[i].payload]]]

\* Mutant of LastId: the link always goes to the first event.
LastIdStuck == IF events = <<>> THEN None ELSE events[1].id

LastId == IF events = <<>> THEN None ELSE events[Len(events)].id

IdsIn(es) == {es[i].id : i \in DOMAIN es}

Init ==
  /\ events = <<>>
  /\ initial_secret \in Secret
  /\ org_secret = initial_secret
  /\ key_map = EmptyMap
  /\ content \in [Id -> Payload]
  /\ \A r \in RotationId : content[r] = Marker
  /\ result = "none"

-----------------------------------------------------------------------------
\* Mutant of Signed: append() keeps signing with the key it was built with.
SignedWithInitial(id, prev, secret) ==
  SignObject(id, id, content[id], prev, initial_secret)

\* sign() with the key and the predecessor append() hands it, as it is stored.
Signed(id, prev, secret) ==
  SignObject(id, id, content[id], prev, secret)

\* What append() accepts: any event of the application, appended before or
\* not, and an event the stream handed out, a rotation event included.
Appendable == CallerId \cup (RotationId \cap IdsIn(events))

\* append(): sign with the current key, link to the last event, store.
AppendEvent(id) ==
  /\ Len(events) < MaxEvents
  /\ id \in Appendable
  /\ content[id] \in Serialisable
  /\ events' = Append(events, Signed(id, LastId, org_secret))
  /\ result' = "ok"
  /\ UNCHANGED <<initial_secret, org_secret, key_map, content>>

\* append() of a payload json.dumps rejects: sign() raises before anything is
\* stored.
AppendRaises(id) ==
  /\ id \in Appendable
  /\ content[id] \in Unserialisable
  /\ result' = "TypeError"
  /\ UNCHANGED <<events, initial_secret, org_secret, key_map, content>>

\* f with x mapped to v: an assignment to an item of a dict.
Bind(f, x, v) == [y \in DOMAIN f \cup {x} |-> IF y = x THEN v ELSE f[y]]

\* rotate_key(): a fresh rotation event signed with the CURRENT key, then the
\* key map, then the key of later appends.
RotateKey(id, new_secret) ==
  /\ Len(events) < MaxEvents
  /\ id \in RotationId \ IdsIn(events)
  /\ new_secret \in Secret
  /\ events' = Append(events, Signed(id, LastId, org_secret))
  /\ key_map' = Bind(key_map, id, new_secret)
  /\ org_secret' = new_secret
  /\ result' = "ok"
  /\ UNCHANGED <<initial_secret, content>>

\* Mutant of RotateBlank: rotate_key() does not validate the key.
RotateBlankAccepted(new_secret) ==
  /\ new_secret \in Blank
  /\ org_secret' = new_secret
  /\ result' = "ok"
  /\ UNCHANGED <<events, initial_secret, key_map, content>>

\* rotate_key() with a blank key: rejected before the event is built.
RotateBlank(new_secret) ==
  /\ new_secret \in Blank
  /\ result' = "SigningError"
  /\ UNCHANGED <<events, initial_secret, org_secret, key_map, content>>

\* Mutant of RotateRaises: the key is switched before the append that raises.
RotateRaisesLate(new_secret) ==
  /\ new_secret \in Secret
  /\ org_secret' = new_secret
  /\ result' = "TypeError"
  /\ UNCHANGED <<events, initial_secret, key_map, content>>

\* rotate_key() with metadata json.dumps rejects: its append() raises.
RotateRaises(new_secret) ==
  /\ new_secret \in Secret
  /\ result' = "TypeError"
  /\ UNCHANGED <<events, initial_secret, org_secret, key_map, content>>

\* The application changes an object nested in a payload it still holds.
Mutate(id, p) ==
  /\ id \in CallerId
  /\ content[id] # p
  /\ content' = [content EXCEPT ![id] = p]
  /\ UNCHANGED <<events, initial_secret, org_secret, key_map, result>>

Next ==
  \/ \E id \in Id : AppendEvent(id) \/ AppendRaises(id)
  \/ \E id \in RotationId, s \in Secret : RotateKey(id, s)
  \/ \E s \in Blank : RotateBlank(s)
  \/ \E s \in Secret : RotateRaises(s)
  \/ \E id \in CallerId, p \in Payload : Mutate(id, p)

Spec == Init /\ [][Next]_vars

-----------------------------------------------------------------------------
TypeOK ==
  /\ events \in Seq(Stored)
  /\ Len(events) <= MaxEvents
  /\ initial_secret \in Secret
  /\ org_secret \in Secret
  /\ DOMAIN key_map \subseteq RotationId
  /\ \A r \in DOMAIN key_map : key_map[r] \in Secret
  /\ content \in [Id -> Payload]
  /\ \A r \in RotationId : content[r] = Marker
  /\ result \in Results

\* No rotation event was appended a second time.
RotationOnce ==
  \A i, j \in DOMAIN events :
    events[i].id \in DOMAIN key_map /\ events[i].id = events[j].id => i = j

\* Positions whose payload has been changed since it was signed.
Altered == {i \in DOMAIN events :
              events[i].checksum # Checksum(content[events[i].payload])}

\* verify() raises: json.dumps meets a payload that has become unserialisable.
VerifyRaises == \E i \in DOMAIN events :
                  content[events[i].payload] \in Unserialisable

\* A stream one thread wrote has no gap, whatever was appended: the same event
\* twice, an event that was signed before, a rotation event (signing.py:497-503
\* and the linkage check 378-385).
NoGaps == Gaps(Log) = {}

\* verify() blames exactly the events whose payload was changed after they
\* were signed, across any number of rotations, as long as no rotation event
\* is in the stream twice (signing.py:552-556 against 387-389).
VerdictExact ==
  RotationOnce /\ ~VerifyRaises =>
    Tampered(Log, initial_secret, key_map) = Altered

\* The key that append() signs with is the one verify_chain() will hold after
\* the last event: rotate_key() switched both sides at the same place.
KeyAgreement ==
  RotationOnce =>
    InForce(events, initial_secret, key_map, Len(events) + 1, org_secret)
=============================================================================
