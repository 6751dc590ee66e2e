---------------------------- MODULE VerifyChain ----------------------------
(***************************************************************************)
(* signing.verify_chain(): the loop over a chain read back from storage,   *)
(* one iteration per step.                                                 *)
(*                                                                         *)
(* `Honest` is the chain that an audit stream signed; the sequence handed  *)
(* to the loop is any sequence of records that storage may return: records *)
(* lost, duplicated, reordered, altered or never signed.                   *)
(***************************************************************************)
EXTENDS Signing, FiniteSetsExt

CONSTANTS
  Id,              \* event ids
  Secret,          \* keys that _validate_secret accepts
  Blank,           \* keys that it rejects
  Payload,         \* payloads
  Unserialisable,  \* those json.dumps cannot encode
  NonAscii,        \* checksums and signatures with a character outside ASCII
  Honest,          \* the chain as it was signed, earliest first
  Record,          \* the records storage may return
  KeyMap,          \* key_map arguments; EmptyMap stands for None
  MaxLen           \* bound: longest sequence handed to verify_chain

Files == UNION {[1..n -> Record] : n \in 0..MaxLen}

ASSUME ChainAssumption ==
  /\ None \notin Id
  /\ Unserialisable \subseteq Payload
  /\ MaxLen \in Nat
  /\ \A r \in Record : r.id \in Id /\ r.payload \in Payload
  /\ \A m \in KeyMap : /\ DOMAIN m \subseteq Id
                       /\ \A x \in DOMAIN m : m[x] \in Secret \cup Blank
  /\ Secret \cap Blank = {}

\* The honest chain is linked and signed.  Its ids need not be different:
\* append() takes an event that is in the stream already.
ASSUME HonestAssumption ==
  /\ DOMAIN Honest = 1..Len(Honest) /\ Len(Honest) \in Nat
  /\ \A i \in 1..Len(Honest) :
       /\ Honest[i].id \in Id
       /\ Honest[i].prev_id = IF i = 1 THEN None ELSE Honest[i - 1].id
       /\ \E s \in Secret : Verify(Honest[i], s)

\* Nobody without a key makes a MAC: a record that verifies under a key
\* carries a signature that the stream made.
ASSUME UnforgedAssumption ==
  \A r \in Record, s \in Secret :
    Verify(r, s) => \E i \in 1..Len(Honest) : r.signature = Honest[i].signature

VARIABLES
  events,          \* event_list
  org_secret,      \* the argument
  key_map,         \* km
  i,               \* position the loop has reached
  current_secret,
  first_tampered,
  gaps,
  tampered_count,
  pc               \* "start", "loop", "done", "raised"

input == <<events, org_secret, key_map>>
vars == <<events, org_secret, key_map, i, current_secret, first_tampered,
          gaps, tampered_count, pc>>

Init ==
  /\ events \in Files
  /\ org_secret \in Secret \cup Blank
  /\ key_map \in KeyMap
  /\ i = 1
  /\ current_secret = org_secret
  /\ first_tampered = None
  /\ gaps = <<>>
  /\ tampered_count = 0
  /\ pc = "start"

\* The keys are validated before anything is read: SigningError.
Reject ==
  /\ pc = "start"
  /\ org_secret \in Blank \/ \E x \in DOMAIN key_map : key_map[x] \in Blank
  /\ pc' = "raised"
  /\ UNCHANGED <<input, i, current_secret, first_tampered, gaps, tampered_count>>

Begin ==
  /\ pc = "start"
  /\ org_secret \in Secret
  /\ \A x \in DOMAIN key_map : key_map[x] \in Secret
  /\ pc' = "loop"
  /\ UNCHANGED <<input, i, current_secret, first_tampered, gaps, tampered_count>>

\* verify() recomputes the checksum of a signed event only; a payload that
\* json.dumps rejects makes it raise, and verify_chain() with it.  So does a
\* digest that compare_digest rejects, the signature if the checksum was right.
Unreadable(event) ==
  /\ event.checksum # None
  /\ event.signature # None
  /\ \/ event.payload \in Unserialisable
     \/ event.checksum \in NonAscii
     \/ event.checksum = Checksum(event.payload) /\ event.signature \in NonAscii

Escape ==
  /\ pc = "loop" /\ i <= Len(events)
  /\ Unreadable(events[i])
  /\ pc' = "raised"
  /\ UNCHANGED <<input, i, current_secret, first_tampered, gaps, tampered_count>>

\* Mutant of Check: a broken link counts as a tampered event as well.
CheckCountsGaps ==
  /\ pc = "loop" /\ i <= Len(events)
  /\ ~Unreadable(events[i])
  /\ LET event  == events[i]
         good   == Verify(event, current_secret)
         linked == LinkedAt(events, i)
     IN /\ tampered_count' = tampered_count + (IF good THEN 0 ELSE 1)
                                            + (IF linked THEN 0 ELSE 1)
        /\ first_tampered' = IF good \/ first_tampered # None
                             THEN first_tampered ELSE event.id
        /\ gaps' = IF linked THEN gaps ELSE Append(gaps, event.id)
        /\ current_secret' = IF event.id \in DOMAIN key_map
                             THEN key_map[event.id] ELSE current_secret
  /\ i' = i + 1
  /\ UNCHANGED <<input, pc>>

\* Mutant of Check: the new key is used for the rotation event itself.
CheckSwitchesFirst ==
  /\ pc = "loop" /\ i <= Len(events)
  /\ ~Unreadable(events[i])
  /\ LET event == events[i]
         key   == IF event.id \in DOMAIN key_map THEN key_map[event.id]
                  ELSE current_secret
         good  == Verify(event, key)
     IN /\ tampered_count' = IF good THEN tampered_count ELSE tampered_count + 1
        /\ first_tampered' = IF good \/ first_tampered # None
                             THEN first_tampered ELSE event.id
        /\ gaps' = IF LinkedAt(events, i) THEN gaps ELSE Append(gaps, event.id)
        /\ current_secret' = key
  /\ i' = i + 1
  /\ UNCHANGED <<input, pc>>

\* One iteration: the signature, the link, then the key for the events after.
Check ==
  /\ pc = "loop" /\ i <= Len(events)
  /\ ~Unreadable(events[i])
  /\ LET event == events[i]
         good  == Verify(event, current_secret)
     IN /\ tampered_count' = IF good THEN tampered_count ELSE tampered_count + 1
        /\ first_tampered' = IF good \/ first_tampered # None
                             THEN first_tampered ELSE event.id
        /\ gaps' = IF LinkedAt(events, i) THEN gaps ELSE Append(gaps, event.id)
        /\ current_secret' = IF event.id \in DOMAIN key_map
                             THEN key_map[event.id] ELSE current_secret
  /\ i' = i + 1
  /\ UNCHANGED <<input, pc>>

\* Mutant of Finish: the loop stops one event early.
FinishEarly ==
  /\ pc = "loop" /\ i >= Len(events)
  /\ pc' = "done"
  /\ UNCHANGED <<input, i, current_secret, first_tampered, gaps, tampered_count>>

Finish ==
  /\ pc = "loop" /\ i = Len(events) + 1
  /\ pc' = "done"
  /\ UNCHANGED <<input, i, current_secret, first_tampered, gaps, tampered_count>>

Next == Reject \/ Begin \/ Escape \/ Check \/ Finish

Spec == Init /\ [][Next]_vars

-----------------------------------------------------------------------------
\* Mutant of valid: a chain without tampered events passes, gaps or not.
ValidDespiteGaps == tampered_count = 0

\* The `valid` field of the ChainVerificationResult.
valid == tampered_count = 0 /\ Len(gaps) = 0

\* What a signature covers of an event.
Covered(e) == <<e.id, e.payload, e.prev_id>>

TypeOK ==
  /\ events \in Files
  /\ org_secret \in Secret \cup Blank
  /\ key_map \in KeyMap
  /\ i \in 1..(Len(events) + 1)
  /\ current_secret \in Secret \cup Blank
  /\ first_tampered \in Id \cup {None}
  /\ gaps \in Seq(Id) /\ Len(gaps) <= i - 1
  /\ tampered_count \in 0..(i - 1)
  /\ pc \in {"start", "loop", "done", "raised"}

\* The loop computes the declarative verdict: as many signatures counted as
\* positions fail, the first of them named, and the gaps in the order of the
\* chain, each by the id of the event whose link is broken (signing.py:369-398;
\* so the docstring, signing.py:111-113, where RFC-0001-AGENTOBS.md:1002 has the
\* prev_id that points nowhere).
LoopVerdict ==
  pc = "done" =>
    LET tampered == Tampered(events, org_secret, key_map)
        missing  == Gaps(events)
    IN /\ tampered_count = Cardinality(tampered)
       /\ first_tampered = IF tampered = {} THEN None ELSE events[Min(tampered)].id
       /\ \E order \in [1..Cardinality(missing) -> missing] :
            /\ \A m, n \in DOMAIN order : m < n => order[m] < order[n]
            /\ gaps = [n \in DOMAIN order |-> events[order[n]].id]

\* `valid` is reported exactly when every position verifies and links.
ValidIsValid ==
  pc = "done" => (valid <=> Valid(events, org_secret, key_map))

\* The stream was given the event with this id more than once.
Repeated(id) ==
  \E j, k \in 1..Len(Honest) : j # k /\ Honest[j].id = id /\ Honest[k].id = id

\* Storage may lose, repeat, reorder or alter records.  What verify_chain() then
\* calls valid has nothing but what the stream signed, in the positions where it
\* signed it up to the first event that had been appended twice: a prev_id that
\* names such an event does not say which of its places is meant, so that of
\* a, b, a, c the chain a, c passes (signing.py:377-385, 500-502).  A chain
\* without repeated events is valid only if it is a beginning of the signed one;
\* that its end is missing cannot be seen from it.
ValidMeansSigned ==
  pc = "done" /\ valid =>
    \A n \in DOMAIN events :
      /\ \E m \in DOMAIN Honest : Covered(events[n]) = Covered(Honest[m])
      /\ (\A m \in 1..(n - 1) : ~Repeated(events[m].id)) =>
           /\ n <= Len(Honest)
           /\ Covered(events[n]) = Covered(Honest[n])

\* RFC-0001-AGENTOBS.md:990-991, "Any modification, insertion, or deletion
\* causes every signature after that point to be invalidated": in a complete
\* chain with one altered record and the right keys, no later record verifies.
ModificationSpreads ==
  /\ pc = "done" /\ Len(events) = Len(Honest)
  /\ Valid(Honest, org_secret, key_map)
  =>
    \A m \in DOMAIN events :
      /\ events[m] # Honest[m]
      /\ \A n \in DOMAIN events \ {m} : events[n] = Honest[n]
      => \A n \in (m + 1)..Len(events) : n \in Tampered(events, org_secret, key_map)
=============================================================================
