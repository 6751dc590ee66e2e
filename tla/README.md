# llm-toolkit-schema: a verification project

TLA+ models of `llm_toolkit_schema`, above all of the parts that keep state, TLC runs over
small instances of them, and theorems that TLAPS checks for every value of the
constants.  Line numbers refer to files of `llm_toolkit_schema/` unless a path is given.

## 1. The system

A Python library of event envelopes for LLM tools: an `Event` is built, given a
ULID, perhaps redacted, checked by a governance policy, signed into an audit
chain, put in an `EventStream`, exported to one or more back ends, and read
back and verified.  It is used from threads and from asyncio coroutines.

| component | state | operations | interacts with | hard part | what makes it correct |
|---|---|---|---|---|---|
| audit stream, `signing.py` | `_events`, `_org_secret`, `_initial_secret`, `_key_map` | `append`, `rotate_key`, `verify`; `sign`, `verify`, `verify_chain` | events, ULIDs, JSON | rotation at the right place on both sides, calls that raise midway, no lock, damaged storage | no gap in a stream one thread wrote; only what was changed is blamed; a valid chain has only what was signed, and is a prefix of it unless an event was appended twice |
| ULID generator, `ulid.py` | `_last_ms`, `_last_rand`, a lock | `generate` (`validate`, `extract_timestamp_ms` are pure) | every `Event()` of the process | threads, clock set back, overflow of the random part, waiting with the lock held | unique ids, ordered in real time, every call ends |
| JSONL exporter, `export/jsonl.py` | the open file, its buffer, `_closed` | `export`, `export_batch`, `flush`, `close` | file system, readers | crash in the middle of a line, write errors, restart in append mode | what was flushed is read back, but for a bounded loss and what a failing write found in the buffer |
| event stream, `stream.py` | a list | readers of files, queues and Kafka; filters; `route`, `drain` | producers, exporters | torn files, queues in use, sentinels, committed offsets | the readers agree; nothing is taken and dropped |
| HTTP exporters, `export/webhook.py`, `otlp.py`, `datadog.py`, `grafana.py` | configuration only | `export`, `export_batch` | executor threads, servers | retries, timeouts with late arrival, partial failure of a batch | a call that returns was delivered; bounded duplicates |
| governance, `governance.py` | a policy's sets and rules, the global policy | `check_event`, `add_*`, `set_global_policy` | every tool that checks events | the policy is taken under a lock and applied after it, stage by stage, while others change or replace it | what it refused at the call does not pass; a refusal has a reason |
| registries, `consumer.py`, `deprecations.py`, `_cli.py` | a list, a dict, each behind a lock | `register`, `check_compatible`, `mark_deprecated`, ... | the command line | two lock acquisitions in one command | what a command says is true of what it counted |
| redaction, `redact.py` | none | `apply`, `contains_pii`, `assert_redacted` | signing, export | order of redact, sign and export; thresholds; what one traversal reaches and the other does not | no wrapped value leaves; an event that `assert_redacted` passes can be sent |
| event envelope, `event.py`, `actor.py` | immutable, payload shared | construct, validate, `to_json`, `from_json` | all | unserialisable payloads, keys JSON rewrites | round trip; the signature lasts |
| payload classes and policies, `namespaces/`, `models.py` | objects; `retry_events` inside a call | constructors, `to_dict`, `from_dict`, `retry_sequence`, `check_input`, `validate_output`, ... | events, readers | values that are falsy, redacted, missing or converted on reading; the last retry | a reader gets the object that was built; retries add up |
| compliance, `compliance/` | none | chain, isolation and compatibility suites | signing | rotation, duplicate ids | agrees with `verify_chain` and `validate` |
| callbacks, `integrations/` | `_events`, `_starts`, pending tasks | LangChain and LlamaIndex callbacks | event loop, exporters | fire-and-forget tasks, unmatched starts, other threads | each end pairs with its start; what is lost stays lost |
| types, validation, migration | tables | pure functions | all | several checkers of one rule | the checkers agree |

`PROJECT.json` lists every component with its status, and the hazards of the
code, each at its line with the properties that cover it.

## 2. The modules

| module | models | state and actions |
|---|---|---|
| `Signing` | the functions of `signing.py` | operators: `Sign`, `Verify`, and `Tampered`, `Gaps`, `Valid`, what `verify_chain()` reports, defined over the whole sequence |
| `AuditStream` | `AuditStream`, each call one step | variables named after the slots; `AppendEvent`, `AppendRaises`, `RotateKey`, `RotateBlank`, `RotateRaises`; `Mutate` is an application that changes a nested object of a payload it handed over (`sign()` copies one level) |
| `AuditStreamThreads` | the same object shared by threads | one step for each read or write of an attribute: read the last event, sign, store, record the key, switch the key; `verify()` is the copy of the key map, then the copy of the list |
| `VerifyChain` | `verify_chain()` itself | the loop, one iteration for each step, on any sequence of records that storage may return |
| `MonotonicIds` | what a generator promises | an id is taken at one moment between the call and its return, and is greater than all taken before |
| `ULIDGenerator` | `_ULIDGenerator`, the clock | the lock, the four branches of `_next_ms_rand()`, the spin, the encoding after the lock is released, both error paths |
| `Courier` | what an exporter promises the code that awaits it | a call owes parts; a part arrives at most so many times, perhaps after the call has ended; a call that ends without an error has seen every part arrive |
| `Delivery` | `route()` and `drain()` over the webhook, OTLP, Datadog and Loki exporters | the coroutine of each call (`Begin`, `Advance`, `Return`, `Backoff`, `Wake`, `Raise`, `Escape`, `Cancel`); the executor's queue and threads (`Start`, `Unreachable`, `Lose`, `Hear`); the servers (`Receive`, also after the thread has given up) |
| `JsonlLog` | `JSONLExporter`, the file, the three file readers | `Export`, `ExportBatch`, `Flush`, `Close` and how each fails (`ExportFails`, `FlushFails` and the exporter stays open, `CloseFails`), `Spill` (the io module writes part of its buffer), `Crash`, `Construct`; the readers are operators over the file, which say at which positions the lines start that they yield |
| `Callbacks` | both callback handlers under threads | runs of the framework, `_starts`, the callback each thread is in the middle of, the export tasks; `LangchainStart`, `LangchainEnd`, `EventStart` and `EventStartEmits`, `EventEnd` and `EventEndEmits`, `ClearEvents` |
| `Handover` | what an application may expect of the events it makes | an event that was handed to a reader stays so, a lost one never turns up |
| `Intake` | `Callbacks`, the event loop, a queue or Kafka topic, and the readers of `stream.py` | the log of all items and how many are gone; `ExportDone`, `ExportFails`, `LoopEnds`, producers (`PutStop`, `PutOther`), `TakeItem`, `QueueEmpty`, `Cancel`, `Poll`, `PollTimesOut`, `PollChokes`, `AutoCommit`, `Crash` |
| `Gatekeeper` | what a policy promises | policies only tighten; a check is one decision by the policy in force at the call |
| `Governance` | `EventGovernancePolicy` and the global policy | a check in its four stages, a rule a step; `SetGlobalPolicy`, `AddBlockedType`, `AddDeprecatedType`, `AddRule` between any two |
| `Registries` | consumers, deprecation notices and `check-consumers` | one action a method, two for what takes the lock twice or acts after it |
| `Singletons` | one process with both | each thread makes one call at a time |
| `Payloads` | the values a field may hold, and the kinds of fields | operators: what a constructor takes, how `from_dict()` reads |
| `Namespaces` | the 32 payload classes | one definition a class; `Constructs`, `ToDict`, `FromDict` |
| `Policies` | `FencePolicy`, `GuardPolicy`, `TemplatePolicy` | `retry_sequence()` one attempt a step; the others are operators |
| `Events` | validation by each checker, redaction, signing, JSON, the pydantic model, the exporters' conversions | operators over an event |
| `Lifecycle` | the life of one event | `Build`, `Policy`, `Fence`, `Handle`, `EmitAny`, `Redact`, `Sign`, `Json`, `Model`, in any order; its formulas are `LifeInit`, `LifeNext`, `LifeSpec` |

`AuditStreamProofs`, `AuditStreamThreadsProofs`, `VerifyChainProofs`, `EventProofs` (about `ULIDGenerator` and `Lifecycle`),
`DeliveryProofs`, `JsonlLogProofs`, `IntakeProofs` and `SingletonsProofs` hold the proofs; each `MC*` module is the instance that TLC checks.  An operator whose comment
begins "Mutant of" is a plausible bug: with it in place of the definition it
names, TLC finds a property violated (`mutants` in `PROJECT.json`).

How they compose: `AuditStream`, `AuditStreamThreads` and `VerifyChain` share
`Signing`; `AuditStreamThreads` implements `AuditStream` when writers take
turns; `VerifyChain` proves that the loop computes what `AuditStream` states in
terms of `Tampered` and `Gaps`; `ULIDGenerator` implements `MonotonicIds`;
`Delivery` implements `Courier`.  `Intake` extends `Callbacks` with the transport
and the readers, and the whole implements `Handover`.  `Singletons` runs
`Governance` and `Registries` in one process, and its governance part implements `Gatekeeper`.
`Lifecycle` puts `Payloads`, `Namespaces`, `Policies` and `Events` together, each of which extends the one before.

### Abstractions

* Cryptography is ideal: a digest is the tuple of its inputs.  `VerifyChain`
  has the assumption that follows from it, `UnforgedAssumption`: a record that
  verifies under a key carries a signature the stream made.  It must hold for
  every secret that the verifier may use.
* An ULID is the pair `<<ms, rand>>`.  `_encode_ulid()` writes both with a fixed
  number of digits, the most significant first, so strings compare as pairs.
* The text of an event in a file is two fragments, the smallest number that
  lets a file end inside it.  `SplitsLine` and `MidCharacter` are the events for which
  the place of the break matters.  `Written` gives the text of a batch by
  position, fragment k belonging to line (k + 2) \div 3, since the proofs cannot use a
  recursive concatenation.
* Blocking of a call that waits for a lock is the action's guard; a step of
  `AuditStreamThreads` is what CPython runs without switching threads (a list
  append, a dict assignment, a copy of a list or dict).  The key is read and
  the event signed in one step: between the two nothing shared is touched.
* An exporter sends bodies; a body is its destination and its events.  What a
  conversion writes is data, and only which events go where is kept
  (`SpansOf`, `LogsOf`, `SeriesOf`, `Chunks`).  `Filter`, the list comprehension with a
  condition, is defined by the rank of what is kept: it is what `SelectSeq` computes, which is recursive and
  so closed to the proofs.  The conversions all happen before the first
  request, so one that raises sends nothing.  `export()` is a batch of one.
* The reply of a server is one of four kinds: `ok` (2xx), `rejected` (4xx),
  `failed` (5xx, and 3xx that urllib does not follow), `escaped` (one that
  `http.client` cannot read, which is no `OSError`).  A timeout or a broken connection is
  `lost`: the request may have been received, or be received yet.
* A call that is refused and changes nothing (an exporter that is closed, an
  empty batch) is no action.
* A queue or topic is a log of everything ever put and the number of items that
  are gone for later calls: taken off the queue, or committed for the group.  A
  topic has one partition, and calls of one group do not overlap.  The stop
  markers and the exporter behind a handler are the application's.
* A start time is the number of the run that stored it, so a duration measured
  from another run's start is visible.
* A rule of a policy is a function of the event's type.  Its reason, the
  wording of a notice and the names in a report are left out, and so is the
  order in which a report lists consumers.
* A payload value is the Python literal it stands for: numbers, texts, lists,
  dictionaries and flags with at least one value on each side of every check a
  constructor makes, `nan` and `inf` among them.  What differs only in wording
  is one literal, `'a'`, which is also the member of every list of allowed names.  The literals of
  1, 2, 3, ... are the constant `Numeral`, since the attempts of `FencePolicy` are counted
  and no operator of the language turns a number into its digits.
* The objects that an application builds are the constant `Tried`, and `Varied` are those whose events
  it also wraps and changes.  TLC has typical objects with one field out of the ordinary, the
  proofs any objects that have the fields of their class.
* A wrapped field keeps its value in `payload`, and `wraps` says that a `Redactable`
  is around it, or around an item of it, or around a value inside a mapping that
  is no dict or inside a set.  Two of the five sensitivities are enough to be below and at a
  threshold.
* The envelope of an event has, for each property, one spelling of each sort
  that some checker tells apart.

## 3. The runs

| run | states | asks | bounds |
|---|---|---|---|
| `audit_stream` | 51,480 | gaps, verdict and keys of a stream written by one thread | four events, two caller ids (each may be appended again), two rotations, two keys; enough for a rotation event that is re-appended after the next rotation |
| `verify_chain` | 347,322 | is the loop's verdict the declarative one; has a valid chain only what was signed, in its place | a chain of four: a rotation, an event, the same event again, another; all sequences of up to four out of ten records (the four, and six damaged ones: payload, link, no signature, foreign key, unserialisable, a signature that is not ASCII) |
| `ulid_generator` | 125,515 | uniqueness, order, refinement, every call ends | two threads, four calls, two random values (so overflow is usual), the clock up to 4 and one setback, the largest encodable time 3 |
| `audit_stream_threads` | 357,978 | which overlaps damage the chain, which raise a false alarm, refinement | two writers, one verifier (verifiers do not see each other), four events, two rotations: enough to rotate twice, append the first rotation event again and an event after it |
| `jsonl_log` | 1,103,143 | loss and malformed lines | four events, one of each kind, in batches of up to two; three calls, two faults: a torn line, a line glued to it, and one after; or two lines in the buffer when a third is refused, and a `flush()` that succeeds |
| `delivery` | 330,225 | what the caller may conclude from a return or an error; what is duplicated, left behind, overtaken | each exporter; three events (one traced, one not, one traced with a metric) in chunks of two, so that OTLP has two stages, one of them a full chunk and one not; two calls, each with the whole stream or the log alone; one retry; two threads, so that a third request waits in the pool |
| `intake` | 579,086 | which events a reader gets, which are lost, twice or mispaired; do readers end | two threads, one of which runs the loop; one LangChain run or two LlamaIndex runs of either kind under two ids; two calls of a reader; one mishap (a failed or cancelled task or call, a crash, a lost commit, `clear_events`); a queue of two; two stop markers or malformed or undecodable messages; six set-ups: queue, async queue, group with and without a limit, no group with a limit of 0, LlamaIndex into an async queue |
| `singletons` | 441,904 | does a check keep its promise while the policy changes; is the report true | two threads, four calls in all; two policies, one of them strict; a registered type and another; one rule; one tool with a good and a bad version; a type and its spelling with blanks; warnings as errors or not |
| `lifecycle` | 30,286 | what leaves, what the gates let pass, what a reader gets back, what the signature covers, how retries add up | every class with each of 41 values in each field that its constructor lets pass, one field at a time; every field dropped once, and all of them; every single wrapping and every pair of wrapped fields of a typical object; every odd spelling of each envelope property; up to two retries.  No bound on the steps |
| `verify_chain_spread`, `jsonl_aiter`, `jsonl_skip` | - | a statement of the documentation that the code refutes, see section 5 | as above |

Properties, and what they rest on:

* `NoGaps`, `VerdictExact`, `KeyAgreement` hold for whatever one thread does:
  the same event twice, an event signed before, rotations that raise.  The last two need
  `RotationOnce`: a rotation event that the application appends again after a
  later rotation switches the verifier back to an old key, and the stream then
  fails verification for ever.  The code does not prevent it.
* `LoopVerdict`, `ValidIsValid`: the loop computes what is wrong with the chain as a
  whole.  `gaps` are the ids of the events with a broken link, as in the docstring; the RFC has it
  otherwise (section 5).
* `ValidMeansSigned`: what is valid was signed, each record of it, and stands where it was signed up to the
  first event that had been appended twice.  `append()` takes an event again, and a `prev_id` that
  names such an event does not say which of its places is meant: of a, b, a, c the records a, c are
  valid.  Without such events a valid chain is a prefix of the signed one; no
  chain says anything about records missing at its end.
* `AlarmExplained`, `OnlyRotationsTamper`: without a lock around the writers,
  appends that overlap fork the chain (gaps), and a rotation that overlaps
  another write leaves events that will not verify.  Even when writers take
  turns, `verify()` beside them can fail once: it copies the key map before the
  list, and a rotation and an append may fall between.  And it fails for ever, without
  any overlap, when a rotation event is appended again after a later rotation: the first
  property names that as its third reason, the second has `RotationOnce` as its precondition.
* `IdsUnique`, `RealTimeOrder`: for ids in the order of calls, not in the order
  in which threads deliver events made of them.
* `LossIsBounded`, `MalformedIsBounded`: a crash between two writes leaves an
  unterminated line; the exporter of the next process appends to it.  `LossIsBounded` is about
  events whose `export()` returned and that were then flushed without an error.  Not covered
  are those in `exposed`: they were still in the buffer when a write of another call failed.
  The io module drops what it cannot write, so of `export(a)`, `export(b)`, a failing
  `export(c)` and a `flush()` that returns, a and b are lost for one fault.

* `ReturnedIsDelivered`: an `export_batch()` that returns means that each event was received
  at every destination the documentation gives it, with a reply of 2xx.  One
  exception is in the meaning of 2xx, see the redirects in section 5.
* `StagesInOrder`: an OTLP chunk is received only after the earlier ones were
  acknowledged; an error in the middle therefore leaves a delivered prefix.
* `DuplicateOnlyAfterFailure`, `QuietAfterEnd`, `InOrder`: what a caller may not rely on is
  named by `Abandoned`: a request that timed out, whose call was
  cancelled, or whose sibling in a Datadog batch failed, may be received after
  the call has ended and after requests of later calls.
* `ImplementsCourier`, `EveryCallEnds`: the promise, and that nobody waits for ever
  although abandoned requests occupy threads of the pool.

* `DurationsPair`: a duration in a LlamaIndex event is measured from its own start, and
  `on_event_start()` finds what it stored, unless the run shares its id with an open one or
  `clear_events()` came between.  Otherwise `KeyError` reaches the framework,
  or the duration is that of another run; the default event id is empty, so
  all runs without an id share it.
* `Accounted`: no reader skips an event that is gone for others, two calls
  never read the same one while offsets are saved, and a call reads in order without a gap.
  A reader takes one event even if `max_messages` is 0.
* `ImplementsHandover`: lost are events whose task was cancelled, failed or
  never created (a callback on another thread than the loop's exports nothing),
  and those read by a call that was cancelled or raised after they were gone.
* `ImplementsGatekeeper`: rules added while the iterator walks the list are
  applied, and a stage that is passed is not looked at again, so an event may pass
  that the policy refuses by now, but none that it refused at the call.
* `ReportSound`: the exception is `clear()` between the two acquisitions of the lock.
* `NothingLeaks`: for JSON, OTLP, Datadog and the OpenTelemetry bridge, after any sequence of steps
  and also for a `Redactable` no redaction ever reached.
* `GatesHold`: the exceptions are named in the property: a value in a set, which neither
  traversal looks into; a duration that is wrapped, none or infinite; redacted
  token counts; and the spellings on which the checkers differ (section 5).
* `CopiesAgree`: a redacted list reads back as the list of its marker's characters
  and a redacted flag as true; a missing field reads as the default of
  `from_dict()`; `action` is read with `str()`; dictionaries with numbers as keys
  come back with texts.
* `SignatureLasts`: `apply()` keeps the signature, so it must add nothing to an
  event that was signed; it does not, because `sign()` raises while anything is
  still wrapped.  The exception is again a dictionary with numbers as keys.
* `RetriesAddUp`: the n-th retry event announces attempt n + 1, and every
  announced attempt was made when the call returns.

Fairness is stated in `ULIDGenerator`, `Delivery` and `Intake`.  In `Delivery`, `WF(Thread)`
says that the pool takes up what is queued and that a request which a thread has begun ends: every
`urlopen()` has a timeout.  That timeout is for each socket operation, so
a server that sends one byte at a time can hold a thread for longer; the
assumption is that it does not do so for ever.  `WF(Loop)` says that the event loop resumes a
coroutine that is ready.  Nothing is asked of the network or the servers.

In `ULIDGenerator`, `WF(Run(t))`: a thread inside
`generate()` is scheduled; it never blocks but on the lock, which others hold
for a few steps or while they spin.  Weak fairness is enough for the lock
because `MaxCalls` bounds how often others can take it; CPython's lock is not
known to starve a thread, and the code makes no promise of its own.  `WF(Tick)`:
the clock moves on, up to `MaxClock` and, while a thread spins, past the last
millisecond; `MaxSetbacks` bounds setbacks, since a clock set back for ever
would stop a spinning thread.

In `Intake`, `WF(Reader(c))` says that a reader that has something to do does it:
`from_queue()` and `from_kafka()` run on a thread of the application, and
`from_async_queue()` on a loop that runs.  A LlamaIndex callback that has begun on the loop's thread returns,
since it waits for nothing.  `WF(PutStop)` is the application's part: `CallsEnd` holds
only when it puts as many stop markers as there are calls, and the
property says so.  Nothing makes the framework end a run, a task finish or a message arrive.

`CHECK_DEADLOCK FALSE` is used where the system stops: `verify_chain()`
returns, the generator has made its `MaxCalls` calls, and so have the
applications of `Delivery`, `Intake` and `Singletons`; in `Lifecycle` an
event that cannot be written as JSON may stay as it is.

## 4. The proofs

`AuditStreamProofs` (`TypeCorrect`, `StreamHasNoGaps`, `SignerAndVerifierAgree`,
`VerdictIsExact`), from `StreamAssumption`.  The inductive invariant is the
conjunction of: `TypeOK`; every event is linked to the one before; every rotation
event in the stream is in the key map and the reverse; as long as no rotation
event is in the stream twice, every event carries the signature of the key in
force at its position, and the key in force after the last one is `org_secret`.
The last part is what `VerdictExact` lacks to be inductive: the verdict is about
the past, the next signature is made with the present key.  The lemmas
`InForceBefore`, `InForceAfterPlain` and `InForceAfterSwitch` say what appending one event does to
the key in force.

`VerifyChainProofs` (`TypeCorrect`, `LoopVerdictHolds`, `VerdictIsSound`, `ValidChainIsHonest`), from
`ChainAssumption`, `HonestAssumption` (the chain is linked and signed; an id may occur in it
more than once), `UnforgedAssumption`.  The invariant says
that `current_secret` is the key in force at `i`, and that both counters are
zero exactly when all positions before `i` verify and link.  `LoopVerdictHolds` adds
`Tallied`: `tampered_count` is the number of positions before `i` that fail, the first
of them is named, and `gaps` lists the events with a broken link in increasing order.
`ValidChainIsHonest` adds (`Matched`) that as long as nothing failed, each record is covered by a signature
the stream made, so its id and its link are those of some honest event.  While no record before it is of
a repeated event (`Plain`) it agrees with the honest one at the same place: the link to the record before decides which.

The first part of `EventProofs` (`TypeCorrect`, `UniqueIds`, `OrderedIds`, `Refinement`) is about the id of an
event, from `GeneratorAssumption`.  The invariant says that the lock's holder is the only thread inside, that
every pair drawn so far is at most the generator's state, and that a
pending pair is greater than all ids returned before its call.  `Refinement` is the safety part of
the promise: each step is a step of `MonotonicIds` or a stutter.

`AuditStreamThreadsProofs` (`TypeCorrect`, `AlarmIsExplained`,
`OnlyRotationsTamperHolds`, `SerialImplements`), from `ThreadsAssumption`: there are
finitely many writers, and a checksum or a signature is never `None`.  `Room`
(events and threads about to store one fit the bound) and `Fresh` (an id that
`rotate_key()` draws is in no other call and not in the stream before it is stored; who appends a rotation event found it
there) type the stream.  `Overlap` ties the history to the present: two writing calls in
progress have been noted as overlapping.  `Signing` and `Keyed` are what a stream keeps as long as no *rotation* overlapped:
what is signed and not yet stored carries the present key, and the event of a rotation in progress is the last
and the only one of its id; every stored event verifies, and while a rotation is about to switch, the key in
force is the one it brings.  `Keyed` also needs `RotationOnce`; once that is false it stays so, since the
stream only grows (`OnceBefore`).  `Linked` is the same for
links, and needs that *nothing* overlapped.  `Copies` is what a verifier between its
two copies may rely on.  `SerialImplements` maps the state to the stream without the rotation in progress
(`StreamEvents`, `StreamKey`, `StreamMap`): a rotation
takes effect when its key is switched, an append when it stores its event.  `Pending`, an invariant of its own, says that the event
which the mapping leaves out is the one the rotation signed.

`JsonlLogProofs` (`TypeCorrect`, `LossIsBoundedHolds`, `MalformedIsBoundedHolds`),
from `LogAssumption`.  The text is what is on the disk and in the buffer.  `Cuts` are the positions in it at which a line does not go
on as it should; `Scarred` says that there are no more of them than faults, and `Kept` that the lines of
durable events are on the disk and those of accepted ones in the text, but for those in `exposed`.  A line that is there and is not read
has a cut just before it, and each cut is before one line only; a malformed
line has a cut at its first fragment or its second, and only the one at the end of the disk
may be a line in the middle of being written.  Both bounds then come from an injection into the
cuts.  `MaxCalls`, `MaxBatch` and `MaxFaults` are constants of the theorems.

`IntakeProofs` (`TypeCorrect`, `DurationsPairHolds`, `AccountedHolds`,
`HandoverImplemented`), from `CallbacksAssumption` and `IntakeAssumption`.  `Pairing` says whose
start time is stored while a run is open, and that of two open runs under one id
one is already known to be crossed.  `Stored` says that an event is at one place of the log only, and no
longer the business of a task; `Turns` that calls of one consumer group follow each other.  `Sound` is what
`Accounted` lacks: how the events a call has collected relate to its position and to
what is gone, while it reads and after it has committed or failed to.  For the refinement, `Members`
says of each event in terms of the log whether it is delivered or lost, and `Moves` is what a
step may do to both sets; one lemma for each group of actions shows that it does one of the three.

`DeliveryProofs` (`TypeCorrect`, `QuietAfterEndHolds`, `InOrderHolds`, `DuplicatesAreRetries`,
`ChunksInOrder`, `ReturnedIsDeliveredHolds`, `CourierImplemented`), from
`DeliveryAssumption`.  There are two inductive invariants.

The first, `IInv`, is about requests and has six parts.
`Shape`, `RequestShape` and `PlanShape` type the state and say that a
request in the executor belongs to the plan of its call, at the stage and the attempt the call is in
or an earlier one.  `LeftBehind` says that a
request which the call no longer waits for has ended, or was abandoned: it is
what `QuietAfterEnd` lacks, since a call moves on long before it ends.
`StagesBehind` says that each earlier stage has a request that was received and
acknowledged.  `History` ties `before` and `overtaken` to the present: a call listed as ended still is.

The second, `Sent`, adds what is delivered.  `Planned`: the plan of a call is `Sound`, it brings every event of
the batch wherever its exporter has to send it.  That is a fact about `Plan` alone, and the lemmas `FilterFacts`
(nothing in the set is left out), `ChunksFacts` (neither is the rest of a
division), `OtlpSound`, `DatadogSound` and `PlanSound` prove it for every batch and every
chunk size.  `Asked`: all requests of the stage a call waits for are with the executor.  `Heard`: a call that
has returned has every request of its plan received and acknowledged.  `Pool`: what is queued and what runs.
`CourierImplemented` needs all of it, and `CopyBound`: the copies of a part differ in their attempt, so
there are no more of them than attempts.  Each step of a coroutine is then `Take`, `Deliver`, `Fail` or no step of
`Courier`, and what a server receives is `Arrive`.

`SingletonsProofs` (`TypeCorrect`, `ChecksAreDecisions`, `ReportIsSound`), from
`GovernanceAssumption`, `RegistriesAssumption` and `SingletonsAssumption`.
`ChecksAreDecisions` is the whole refinement of `Gatekeeper`, which has no
liveness part.  Its invariant, `ChecksInv`, is about what the stages behind a
check leave open: if the policy refused the event at the call, a reason
is still ahead (in the block list, the deprecated types, a rule not yet walked, or the
strict stage), and if it called the type deprecated, the warning was given by the
time the rules begin.  `ReasonsStay` says that no step of another thread takes a
reason away: sets only grow and rules are only appended, so the rule
that the iterator has come to is the same rule afterwards.  `ReportIsSound` rests on
`ListedStays`: until a `clear()`, what was listed stays in the registry.  The
bound `MaxCalls` is a constant of the theorems, so they hold for any number of calls.

The rest of `EventProofs` (`RetriesAddUpHolds`, `NothingLeaksHolds`, `SignatureLastsHolds`,
`GatesHoldHolds`, `CopiesAgreeHolds`) is about its payload, from `NumeralAssumption` (the literals
are different, and none of them is another value's), `PoliciesAssumption` (there are enough of them for
`MaxRetries`) and `LifecycleAssumption` (an object that is tried has the fields of its class).

* `FairKinds` is about the 27 kinds of fields.  A kind is `Fair` when every value
  its constructor accepts is accepted and the same after `to_dict()` and `from_dict()`, and when every
  value that redaction can leave in its place (`Marks`) is refused or reads as `Veiled`.
  `KindedClasses` says that the 32 classes have no other fields, but for `action`.
  `CoherentBack` carries the checks across fields over to the copy: sums, order, two names that must differ.
* `Looping` is the invariant of `retry_sequence()`: one retry event for each attempt that failed and
  was not the last, numbered in turn, and the result has the number of the last attempt.
  `RetryConstructs` says that the constructor refuses none of them.
* `LifeInv` needs nothing of the tables, only what redaction, signing, JSON, the model and the exporters do with
  a value.  `Hidden`: a field the application wrapped is wrapped still, or holds a marker; a redaction
  with a high threshold leaves some fields wrapped, and a field that was replaced is never due again.  `Sealed`:
  what was signed has no wrapper left, so no redaction can touch it or its counters any more, and JSON
  changes only the dictionaries whose keys are numbers.  `Formed` is the shape of an event.
  `ShownFacts` says of each exporter that it shows a wrapped field as a placeholder or not at all.
* `Origin` says where each field of the payload came from: it was sent as `to_dict()` gave it, perhaps
  reread from JSON; or it is still wrapped, at a place its value has; or it holds what redaction makes of
  the value; and a field that is missing was `None` or was dropped.  The object itself was accepted by its constructor (`Built`), or
  is the LlamaIndex handler's (`Handled`).  `GatesHold` and `CopiesAgree` lack just that: both are
  about what a consumer does with a value and say nothing of the steps that brought it there.
  `DurationStays` and `TokensStay` then show that an exporter that raises over a duration or a token
  count has met one of the named exceptions, `OpenBack` and `SecretBack` what a reader makes of a field that
  was never wrapped and of one that was.

The proof of `Origin` found a gap in the model: `Dictionary` said nothing about
a nested object that had been redacted before it was put into another payload (`obj#`), and the
instance had none.  It does now, and TLC tries such objects.

Three of the theorems are whole refinements of specifications without a liveness part
(`ChecksAreDecisions`, `HandoverImplemented`, `CourierImplemented`), `SerialImplements` is
one, and `Refinement` the safety part of another.

Only model-checked: `EveryCallEnds`, of `ULIDGenerator` and of `Delivery`, and `CallsEnd`: liveness under
fairness is out of the prover's reach, as is ENABLED.  The invariants and the action properties of all
passing runs are proved.  The theorems about
`Lifecycle` are about the literals of `Payloads`: that a constructor treats every other value as
it does the one that stands for it is an abstraction of the model, and neither TLC nor a proof shows it.  No module uses a RECURSIVE operator.

## 5. Where the documentation and the code disagree

* RFC-0001-AGENTOBS.md:990-991: "Any modification, insertion, or deletion causes
  every signature after that point to be invalidated".  A signature covers the
  id, the checksum and the previous id (`signing.py:156`), not the previous
  signature: one changed payload invalidates one event.
* RFC-0001-AGENTOBS.md:1002-1003: `gaps` is a "list of `prev_id` values that point to a
  missing predecessor".  The code lists the id of the event whose link is broken (`signing.py:382`, `:386`), and so
  say the docstring (`signing.py:111-113`), docs/api/signing.md:28 and docs/user_guide/signing.md:80.  The
  models follow the code: `LoopVerdict` states its reading, and is no judgement of which is right.  No run is
  marked as a violation for it.
* `stream.py:519`: `aiter_file()` is the "Async generator equivalent" of
  `iter_file()`.  It uses `str.splitlines()`, which also ends a line at U+2028,
  U+2029 and U+0085; `to_json()` writes these unescaped.
* `stream.py:127-128`: with `skip_errors` malformed lines are skipped "instead of
  raising".  Decoding happens outside the `try`, so a file that a crash cut off
  inside a character raises `UnicodeDecodeError`.

Behaviour of the HTTP exporters that the models contain and a reader may not
expect (observed with a local server as well; no run is marked as a violation for them):

* `urllib` follows 301, 302 and 303 of a POST with a GET that has no body, so an
  exporter whose URL has moved returns normally and nothing reaches the new address.
* The comment at `export/webhook.py:222` says "Only retry on 5xx and network
  errors"; the test is for a reason that begins with "HTTP 4", so 307, 308 and 304 are
  retried too.  429 is not retried.
* `IncompleteRead` and `BadStatusLine` are no `OSError`: they are not retried and leave
  `export_batch()` as they are, not as the `ExportError` its docstring names.

Behaviour of the rest that the models contain, or that showed while they were
written; no run is marked as a violation for these either:

* `AuditStream.append()` takes an event that is in the stream already.  An event appended twice hides a deletion
  in the middle from `verify_chain()`, against docs/user_guide/signing.md:99-107 (`ValidMeansSigned`);
  a rotation event appended again after a later rotation makes `verify()` fail for ever (`RotationOnce`).
* `JSONLExporter.flush()` can return although lines of exports that returned were dropped before it, by a write that
  failed in another call (`ExportFails`, `FlushFails`).
* RFC-0001-AGENTOBS.md, section 15.1 (`:1174`): a deprecated type "MUST emit a `DeprecationWarning` but MUST NOT
  raise".  `check_event()` emits a `UserWarning` of its own class; it raises only when
  the application's warning filter turns warnings into errors, `escalate` in `Governance`.
* Checkers of one rule differ.  `models.py:126-128` says that `from_event()` succeeds for any
  event that `Event.validate()` passes; it refuses an `org_id` of blanks.
  The fallback of `validate.py:58-68` refuses an ULID in lower case and
  some types under `x.`, and takes types of two parts and 26 letters that are no ULID; only
  `Event.validate()` refuses the 30th of February; `_compat.py:58` takes `tool@1.2`
  and refuses types of reserved namespaces that are not registered.
* `schemas/v1.0/schema.json:104` and `:109` give checksum and signature without
  the prefixes that `sign()` writes: with `jsonschema` installed `validate_event()` refuses
  every signed event, without it none (`SchemaAccepts`).
* `from_kafka(skip_errors=True)` does not skip a message that cannot be decoded (`PollChokes`), and
  `max_messages=0` reads one (`Full`).
* `LLM_TOOLKIT_SCHEMA_SOURCE_OF_TRUTH.md:627` calls `from_async_queue(queue, max_messages=1000)`;
  it takes no such argument.
* `int(payload.get("duration_ms", 0) * 1e6)` (`export/datadog.py:219`) raises for an explicit `None`,
  which the LlamaIndex handler sends when it has no start time, and for a marker, `nan` and `inf`;
  `export/otlp.py:263-264` for `inf`, since `OverflowError` is not caught; the token counts of OTLP
  and the bridge for markers.
* `apply()` replaces dicts, lists and tuples, the search looks into any mapping,
  and neither into sets: a value in a set is neither redacted nor found, and one in another
  mapping is found for ever.  A second `apply()` overwrites `__redaction_count`.
* The signature of a payload with numbers as keys does not survive JSON: keys are sorted
  before they become texts.
* The default `source` of both handlers has no version, so their events fail
  `validate()`; several of the types they send are not registered.
* A fail-closed `GuardPolicy` raises on an empty hash, where it should block.
* `mark_deprecated()` strips the type, the other methods do not (`Strip`).  A tool that
  registers a compatible version after an incompatible one stays incompatible.
* `check-consumers` and `list-deprecated` read registries that only the process
  itself fills, so as commands they report none.
* Five of the types in `migrate.py` are registered under no such name, and neither are their replacements.
* `export/otel_bridge.py:215-217` says that the span has the event's times; it is started and ended now.

## 6. Not modelled, and why

* Outside the program: logging and `repr`, standard output as a JSONL path, the loss of data the
  operating system had accepted, the SDK's span of the OpenTelemetry bridge,
  the shutdown of the event loop with requests still in its pool, a Kafka topic of
  several partitions and a rebalance in the middle of a call.
* Two exporters on one path: their buffers interleave wherever the operating system puts them.
* Two processes that share a copied ULID generator after `fork()`: each is the
  generator that is modelled, and nothing keeps their ids apart.  After a clock beyond 2^48-1 ms the generator
  never recovers (`EncodeRaises` leaves `last_ms` there): the run takes that
  path and no property asks for more.
* Pure functions over data with nothing to interleave: the digits of an ULID, the trace-context helpers
  of `export/otlp.py`, the registry of types, the migration table, tags and the actor's fields.
* The chain suite of `compliance/` calls `verify_chain()` without a key map, so it
  refuses a sound chain with a rotation, and compares times as strings; the isolation
  suite compares sets of organisations.  Neither keeps state.
* A `Redactable` inside another.  More than one field with a value out of the ordinary is left to
  the proofs: TLC tries one at a time.

## 7. Plan

Done: all modules of section 2, with proofs of every safety property and refinement.

A model worth adding is `UlidCodec`: the digits, `validate` and `extract_timestamp_ms`
against the pair, over a small alphabet.
