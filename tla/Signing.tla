------------------------------ MODULE Signing ------------------------------
(***************************************************************************)
(* The signing primitives of signing.py: checksum, signature, sign(),      *)
(* verify(), and what verify_chain() reports, as a definition over the     *)
(* whole sequence (module VerifyChain has the loop that computes it).      *)
(*                                                                         *)
(* Cryptography is ideal: a digest is the tuple of what it was computed    *)
(* from, so two digests are equal exactly when their inputs are.           *)
(***************************************************************************)
EXTENDS Naturals, Sequences

CONSTANT None   \* Python's None: an absent prev_id, checksum or signature

Checksum(payload) == <<"sha256", payload>>

\* Only these three fields and the key enter the MAC.  The rest of the
\* envelope (timestamp, source, tags, org_id, ...) does not, and neither does
\* the signature of the previous event.
Signature(id, checksum, prev, secret) ==
  <<"hmac-sha256", secret, id, checksum, prev>>

\* sign(): a new event that carries checksum, signature and prev_id; whatever
\* the argument carried in these three fields is dropped.  `object` is the
\* payload the new event holds, `read` what json.dumps reads in it now.
SignObject(id, object, read, prev, secret) ==
  [id        |-> id,
   payload   |-> object,
   checksum  |-> Checksum(read),
   signature |-> Signature(id, Checksum(read), prev, secret),
   prev_id   |-> prev]

Sign(id, payload, prev, secret) == SignObject(id, payload, payload, prev, secret)

\* verify(): the checksum of the payload, then the MAC over the stored fields.
Verify(event, secret) ==
  /\ event.checksum # None
  /\ event.signature # None
  /\ event.checksum = Checksum(event.payload)
  /\ event.signature = Signature(event.id, event.checksum, event.prev_id, secret)

-----------------------------------------------------------------------------
(***************************************************************************)
(* verify_chain(events, org_secret, key_map).  key_map is a function from  *)
(* rotation event ids to secrets; an absent key_map is the empty function. *)
(***************************************************************************)

EmptyMap == [x \in {} |-> None]

\* The event before position i that last switched the key is the j-th.
LastSwitch(events, key_map, i, j) ==
  /\ j \in 1..(i - 1)
  /\ events[j].id \in DOMAIN key_map
  /\ \A k \in (j + 1)..(i - 1) : events[k].id \notin DOMAIN key_map

NoSwitch(events, key_map, i) ==
  \A k \in 1..(i - 1) : events[k].id \notin DOMAIN key_map

\* The verifier holds `key` when it reaches position i.
InForce(events, secret, key_map, i, key) ==
  \/ NoSwitch(events, key_map, i) /\ key = secret
  \/ \E j \in 1..(i - 1) : /\ LastSwitch(events, key_map, i, j)
                           /\ key = key_map[events[j].id]

VerifiesAt(events, secret, key_map, i) ==
  \/ NoSwitch(events, key_map, i) /\ Verify(events[i], secret)
  \/ \E j \in 1..(i - 1) : /\ LastSwitch(events, key_map, i, j)
                           /\ Verify(events[i], key_map[events[j].id])

\* Positions whose checksum or signature does not verify.
Tampered(events, secret, key_map) ==
  {i \in DOMAIN events : ~VerifiesAt(events, secret, key_map, i)}

\* Positions whose prev_id is not the id of the event before (None at the head).
LinkedAt(events, i) ==
  IF i = 1 THEN events[i].prev_id = None
           ELSE events[i].prev_id = events[i - 1].id

Gaps(events) == {i \in DOMAIN events : ~LinkedAt(events, i)}

Valid(events, secret, key_map) ==
  /\ Tampered(events, secret, key_map) = {}
  /\ Gaps(events) = {}
=============================================================================
