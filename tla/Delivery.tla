------------------------------ MODULE Delivery ------------------------------
(***************************************************************************)
(* EventStream.route() and drain() awaiting export_batch() of one of the   *)
(* four HTTP exporters.  A call is a coroutine.  It cuts its batch into    *)
(* stages of HTTP requests, hands the requests of a stage to the default   *)
(* executor of the event loop, and waits for the threads that run them.    *)
(* A request may be received after its thread has given up on it, and the  *)
(* application may cancel the call at any await.                           *)
(*                                                                         *)
(* Each export_batch() converts the whole batch before its first request,  *)
(* and what is encoded after that are strings and numbers, so a conversion *)
(* that raises sends nothing; it is no step here.                          *)
(***************************************************************************)
EXTENDS Naturals, Sequences, FiniteSets

CONSTANTS
  Event,      \* the events of the stream
  Traced,     \* those that have a trace_id
  Metered,    \* those whose payload has a numeric field among metric_fields
  Stream,     \* EventStream._events
  Predicate,  \* what the predicates given to route() accept; drain() accepts all
  ApiKey,     \* does the Datadog exporter have an api_key
  BatchSize,  \* batch_size of the OTLP exporter
  MaxRetries, \* max_retries of the webhook exporter
  Workers,    \* threads of the executor
  MaxCalls    \* bound: calls of the application

Call == 1 .. MaxCalls

ASSUME DeliveryAssumption ==
  /\ Traced \subseteq Event /\ Metered \subseteq Event
  /\ Stream \in Seq(Event)
  /\ Predicate \subseteq SUBSET Event
  /\ ApiKey \in BOOLEAN
  /\ BatchSize \in Nat \ {0}
  /\ MaxRetries \in Nat
  /\ Workers \in Nat \ {0}
  /\ MaxCalls \in Nat

VARIABLES
  exporter,  \* which of the four exporters is used
  at,        \* at[n]: where the coroutine of call n is
  batch,     \* batch[n]: its events
  plan,      \* plan[n]: its stages, each a sequence of requests
  stage,     \* stage[n]: the stage it is in
  attempt,   \* attempt[n]: in _post() of the webhook exporter
  queue,     \* requests that no thread has taken from the executor yet
  thread,    \* thread[r]: what became of request r in the executor
  received,  \* the requests that the servers have received
  before,    \* history: before[n]: the calls that had ended when call n began
  overtaken  \* history: requests received after one of a call that began after
             \*   their own call had ended

payload  == <<exporter, batch, plan>>
executor == <<queue, thread>>
network  == <<received, overtaken>>
vars == <<payload, at, stage, attempt, executor, network, before>>

Exporter == {"webhook", "otlp", "datadog", "loki"}

Ended == {"returned", "raised", "escaped", "cancelled"}

-----------------------------------------------------------------------------
(* What a call sends: a sequence of stages, each a sequence of requests.   *)

Post(to, events) == [to |-> to, events |-> events]

\* The members of s that are in S, in their order: member k has k of them up to
\* its own position.
Filter(s, S) ==
  LET kept == {i \in DOMAIN s : s[i] \in S}
      rank == [i \in kept |-> Cardinality({j \in kept : j <= i})]
  IN [k \in 1 .. Cardinality(kept) |-> s[CHOOSE i \in kept : rank[i] = k]]

SpansOf(events) == Filter(events, Traced)

LogsOf(events) == Filter(events, Event \ Traced)

SeriesOf(events) == Filter(events, Metered)

AtMost(i, j) == IF i < j THEN i ELSE j

\* Mutant of Chunks: the last, smaller chunk is forgotten.
FullChunks(s) ==
  [i \in 1 .. Len(s) \div BatchSize |-> SubSeq(s, (i - 1) * BatchSize + 1, i * BatchSize)]

Chunks(s) ==
  [i \in 1 .. (Len(s) + BatchSize - 1) \div BatchSize |->
     SubSeq(s, (i - 1) * BatchSize + 1, AtMost(i * BatchSize, Len(s)))]

WebhookPlan(events) == << <<Post("webhook", events)>> >>

\* All spans, then all logs, chunk by chunk.
OtlpPlan(events) ==
  LET spans == Chunks(SpansOf(events))
      logs  == Chunks(LogsOf(events))
  IN [i \in 1 .. Len(spans) + Len(logs) |->
        IF i <= Len(spans) THEN <<Post("spans", spans[i])>>
        ELSE <<Post("logs", logs[i - Len(spans)])>>]

\* Traces and metrics at the same time; nothing if there is neither.
DatadogPlan(events) ==
  LET traces  == IF SpansOf(events) = <<>> THEN <<>> ELSE <<Post("traces", SpansOf(events))>>
      metrics == IF SeriesOf(events) = <<>> \/ ~ApiKey THEN <<>>
                 ELSE <<Post("metrics", SeriesOf(events))>>
  IN IF traces \o metrics = <<>> THEN <<>> ELSE <<traces \o metrics>>

\* One push; how entries are grouped into Loki streams is layout.
LokiPlan(events) == << <<Post("loki", events)>> >>

Plan(events) ==
  CASE exporter = "webhook" -> WebhookPlan(events)
    [] exporter = "otlp"    -> OtlpPlan(events)
    [] exporter = "datadog" -> DatadogPlan(events)
    [] exporter = "loki"    -> LokiPlan(events)

Init ==
  /\ exporter \in Exporter
  /\ at = [n \in Call |-> "idle"]
  /\ batch = [n \in Call |-> <<>>]
  /\ plan = [n \in Call |-> <<>>]
  /\ stage = [n \in Call |-> 1]
  /\ attempt = [n \in Call |-> 0]
  /\ queue = <<>>
  /\ thread = [r \in {} |-> "queued"]
  /\ received = {}
  /\ before = [n \in Call |-> {}]
  /\ overtaken = {}

-----------------------------------------------------------------------------
(* The event loop: the steps of the coroutines. *)

\* run_in_executor() for every request of a stage, in order.
Submit(n, k, a, posts) ==
  LET made == [i \in DOMAIN posts |-> [call |-> n, stage |-> k, part |-> i, attempt |-> a]]
      new  == {made[i] : i \in DOMAIN posts}
  IN /\ queue' = queue \o made
     /\ thread' = [r \in DOMAIN thread \cup new |->
                     IF r \in new THEN "queued" ELSE thread[r]]

\* The requests that the coroutine is waiting for.
Current(n) ==
  {r \in DOMAIN thread : r.call = n /\ r.stage = stage[n] /\ r.attempt = attempt[n]}

Goto(n, place) == at' = [at EXCEPT ![n] = place]

\* An empty batch is not sent; a Datadog batch may have nothing to send.
Begin(n, predicate) ==
  LET events == Filter(Stream, predicate)
      stages == Plan(events)
  IN /\ at[n] = "idle"
     /\ \A m \in 1 .. n - 1 : at[m] # "idle"
     /\ events # <<>>
     /\ batch' = [batch EXCEPT ![n] = events]
     /\ plan' = [plan EXCEPT ![n] = stages]
     /\ before' = [before EXCEPT ![n] = {m \in Call : at[m] \in Ended}]
     /\ IF 1 \in DOMAIN stages
        THEN Goto(n, "waiting") /\ Submit(n, 1, 0, stages[1])
        ELSE Goto(n, "returned") /\ UNCHANGED executor
     /\ UNCHANGED <<exporter, stage, attempt, network>>

\* Network errors and every status but 4xx.
Retryable == {"failed", "lost"}

More(n) == stage[n] + 1 \in DOMAIN plan[n]

\* Mutant of Advance: a chunk that could not be sent is passed over.
AdvanceAnyway(n) ==
  /\ at[n] = "waiting"
  /\ \A r \in Current(n) : thread[r] \in {"ok"} \cup Retryable
  /\ More(n)
  /\ stage' = [stage EXCEPT ![n] = @ + 1]
  /\ Submit(n, stage[n] + 1, 0, plan[n][stage[n] + 1])
  /\ UNCHANGED <<payload, at, attempt, network, before>>

\* The next chunk of the OTLP exporter.
Advance(n) ==
  /\ at[n] = "waiting"
  /\ \A r \in Current(n) : thread[r] = "ok"
  /\ More(n)
  /\ stage' = [stage EXCEPT ![n] = @ + 1]
  /\ Submit(n, stage[n] + 1, 0, plan[n][stage[n] + 1])
  /\ UNCHANGED <<payload, at, attempt, network, before>>

End(n, outcome) ==
  /\ Goto(n, outcome)
  /\ UNCHANGED <<payload, stage, attempt, executor, network, before>>

\* Mutant of Return: the first request that succeeds ends the call.
ReturnAtFirst(n) ==
  /\ at[n] = "waiting"
  /\ \E r \in Current(n) : thread[r] = "ok"
  /\ ~More(n)
  /\ End(n, "returned")

\* Mutant of Return: the requests are not awaited.
ReturnUnheard(n) == at[n] = "waiting" /\ ~More(n) /\ End(n, "returned")

Return(n) ==
  /\ at[n] = "waiting"
  /\ \A r \in Current(n) : thread[r] = "ok"
  /\ ~More(n)
  /\ End(n, "returned")

Retry(n) ==
  /\ Goto(n, "sleeping")
  /\ attempt' = [attempt EXCEPT ![n] = @ + 1]
  /\ UNCHANGED <<payload, stage, executor, network, before>>

\* Mutant of Backoff: an exception that is no ExportError is retried as well.
BackoffOnAny(n) ==
  /\ exporter = "webhook" /\ at[n] = "waiting"
  /\ \E r \in Current(n) : thread[r] \in Retryable \cup {"escaped"}
  /\ attempt[n] < MaxRetries
  /\ Retry(n)

\* Mutant of Backoff: one retry more than max_retries.
BackoffOneMore(n) ==
  /\ exporter = "webhook" /\ at[n] = "waiting"
  /\ \E r \in Current(n) : thread[r] \in Retryable
  /\ attempt[n] <= MaxRetries
  /\ Retry(n)

\* Only the webhook exporter tries again, after a pause.
Backoff(n) ==
  /\ exporter = "webhook" /\ at[n] = "waiting"
  /\ \E r \in Current(n) : thread[r] \in Retryable
  /\ attempt[n] < MaxRetries
  /\ Retry(n)

Wake(n) ==
  /\ at[n] = "sleeping"
  /\ Goto(n, "waiting")
  /\ Submit(n, stage[n], attempt[n], plan[n][stage[n]])
  /\ UNCHANGED <<payload, stage, attempt, network, before>>

\* Mutant of Exhausted: the loop runs one attempt further than it counts.
ExhaustedOneLater(n) == exporter = "webhook" => attempt[n] > MaxRetries

Exhausted(n) == exporter = "webhook" => attempt[n] = MaxRetries

\* ExportError.  gather() does not wait for the other request, nor stop it.
Raise(n) ==
  /\ at[n] = "waiting"
  /\ \E r \in Current(n) : \/ thread[r] = "rejected"
                           \/ thread[r] \in Retryable /\ Exhausted(n)
  /\ End(n, "raised")

\* An exception of http.client that is no OSError: a reply that breaks off
\* or is no HTTP.
Escape(n) ==
  /\ at[n] = "waiting"
  /\ \E r \in Current(n) : thread[r] = "escaped"
  /\ End(n, "escaped")

\* The application cancels the task, asyncio.wait_for() for example.  What is
\* queued is withdrawn, what a thread has begun runs on.
Cancel(n) ==
  /\ at[n] \in {"waiting", "sleeping"}
  /\ Goto(n, "cancelled")
  /\ thread' = [r \in DOMAIN thread |->
                  IF r.call = n /\ thread[r] = "queued" THEN "dropped" ELSE thread[r]]
  /\ UNCHANGED <<payload, stage, attempt, queue, network, before>>

Loop(n) == Advance(n) \/ Return(n) \/ Backoff(n) \/ Wake(n) \/ Raise(n) \/ Escape(n)

-----------------------------------------------------------------------------
(* The threads of the executor, and the servers. *)

Running == {r \in DOMAIN thread : thread[r] = "running"}

loop == <<payload, at, stage, attempt, before>>

\* A free thread takes the next request, or throws it away if it was withdrawn.
Start ==
  /\ queue # <<>>
  /\ Cardinality(Running) < Workers
  /\ queue' = Tail(queue)
  /\ thread' = [thread EXCEPT ![Head(queue)] = IF @ = "queued" THEN "running" ELSE @]
  /\ UNCHANGED <<loop, network>>

\* The request of a running thread comes to an end.  The four exporters have a
\* function each for it, which differ in names only.
Settle(r, result) ==
  /\ thread' = [thread EXCEPT ![r] = result]
  /\ UNCHANGED <<loop, queue, network>>

\* No connection: nothing was sent.
Unreachable(r) == r \in Running \ received /\ Settle(r, "failed")

\* The time is up or the connection breaks: the request may have been
\* received, or be received yet.
Lose(r) == r \in Running /\ Settle(r, "lost")

\* "ok": 2xx, perhaps after a redirect, which urllib follows with a GET that
\* has no body; "rejected": 4xx; "failed": 5xx, or 3xx that is not followed;
\* "escaped": a reply that http.client cannot read.
Answer == {"ok", "rejected", "failed", "escaped"}

\* The reply is read.
Hear(r, a) == r \in Running \cap received /\ Settle(r, a)

\* A server receives a request, perhaps after its thread has given up.
Receive(r) ==
  /\ thread[r] \in {"running", "lost"}
  /\ r \notin received
  /\ received' = received \cup {r}
  /\ overtaken' = IF \E q \in received : r.call \in before[q.call]
                   THEN overtaken \cup {r} ELSE overtaken
  /\ UNCHANGED <<loop, executor>>

Thread == Start \/ \E r \in DOMAIN thread : Unreachable(r) \/ Lose(r)
                                   \/ \E a \in Answer : Hear(r, a)

Next ==
  \/ \E n \in Call : \/ \E predicate \in Predicate : Begin(n, predicate)
                     \/ Loop(n)
                     \/ Cancel(n)
  \/ Thread
  \/ \E r \in DOMAIN thread : Receive(r)

Spec == Init /\ [][Next]_vars

\* A thread that has begun a request ends it, at the latest when the timeout
\* expires; the pool takes up what is queued; the loop resumes what is ready.
\* Nothing is asked of the network.
FairSpec == Spec /\ WF_vars(Thread) /\ WF_vars(\E n \in Call : Loop(n))

-----------------------------------------------------------------------------
(* Properties. *)

Request ==
  [call : Call, stage : 1 .. Len(Stream), part : 1 .. 2, attempt : 0 .. MaxRetries]

TypeOK ==
  /\ exporter \in Exporter
  /\ at \in [Call -> {"idle", "waiting", "sleeping"} \cup Ended]
  /\ batch \in [Call -> Seq(Event)]
  /\ stage \in [Call -> Nat \ {0}]
  /\ attempt \in [Call -> 0 .. MaxRetries]
  /\ before \in [Call -> SUBSET Call]
  /\ queue \in Seq(Request)
  /\ DOMAIN thread \subseteq Request
  /\ \A r \in DOMAIN thread :
       thread[r] \in {"queued", "running", "lost", "dropped"} \cup Answer
  /\ received \subseteq DOMAIN thread
  /\ overtaken \subseteq received
  /\ Cardinality(Running) <= Workers

Body(r) == plan[r.call][r.stage][r.part]

\* Where an event has to go, by the documentation of each exporter.
Destinations(e) ==
  CASE exporter = "webhook" -> {"webhook"}
    [] exporter = "otlp"    -> IF e \in Traced THEN {"spans"} ELSE {"logs"}
    [] exporter = "datadog" -> (IF e \in Traced THEN {"traces"} ELSE {})
                               \cup (IF e \in Metered /\ ApiKey THEN {"metrics"} ELSE {})
    [] exporter = "loki"    -> {"loki"}

\* When export_batch() returns, every event of the batch was received at every
\* destination it has, and not refused there (webhook.py:166, otlp.py:492,
\* datadog.py:322, grafana.py:130).  A redirect counts: the body went to the
\* old address only.
ReturnedIsDelivered ==
  \A n \in Call : at[n] = "returned" =>
    \A i \in DOMAIN batch[n] :
      \A d \in Destinations(batch[n][i]) :
        \E r \in received :
          /\ r.call = n
          /\ thread[r] = "ok"
          /\ Body(r).to = d
          /\ \E j \in DOMAIN Body(r).events : Body(r).events[j] = batch[n][i]

\* Chunks of one OTLP call are delivered in order and a failure stops the rest:
\* whatever has been received, all earlier stages were acknowledged
\* (otlp.py:523-528).
StagesInOrder ==
  \A r \in received, k \in 1 .. Len(Stream) : k < r.stage =>
    \E q \in received : q.call = r.call /\ q.stage = k /\ thread[q] = "ok"

\* A body is received twice only if the reply to the earlier copy was lost or
\* a failure worth a retry; what the exporter has heard accepted, refused or
\* in pieces is not sent again (webhook.py:185-225).
DuplicateOnlyAfterFailure ==
  \A r, q \in received :
    /\ r.call = q.call /\ r.stage = q.stage /\ r.part = q.part
    /\ r.attempt < q.attempt
    => thread[r] \in {"lost", "failed"}

\* The exporter no longer waits for r though nobody knows what became of it.
Abandoned(r) ==
  \/ thread[r] = "lost"
  \/ at[r.call] = "cancelled"
  \/ exporter = "datadog" /\ at[r.call] \in {"raised", "escaped"}

MayArrive(r) == thread[r] \in {"queued", "running", "lost"} /\ r \notin received

\* Once a call has ended nothing of it is received, unless a timeout, a
\* cancellation or a failed sibling of a Datadog request left it behind.
QuietAfterEnd ==
  \A r \in DOMAIN thread :
    at[r.call] \in Ended /\ MayArrive(r) => Abandoned(r)

\* Calls made one after the other are received one after the other, with the
\* same exceptions: a late copy may overtake the next batch.
InOrder == \A r \in overtaken : Abandoned(r)

\* What the exporters promise, see module Courier: a body is received at most
\* max_retries + 1 times, without retries at most once.
Parts == (1 .. Len(Stream)) \X (1 .. 2)

Tries == IF exporter = "webhook" THEN MaxRetries + 1 ELSE 1

Standing(place) ==
  CASE place = "idle" -> "idle"
    [] place \in {"waiting", "sleeping"} -> "pending"
    [] place = "returned" -> "delivered"
    [] place \in Ended \ {"returned"} -> "failed"

Statuses == [n \in Call |-> Standing(at[n])]

Owed == [n \in Call |-> UNION {{k} \X DOMAIN plan[n][k] : k \in DOMAIN plan[n]}]

CopiesOf(n, p) == {r \in received : r.call = n /\ r.stage = p[1] /\ r.part = p[2]}

Copies == [n \in Call |-> [p \in Parts |-> Cardinality(CopiesOf(n, p))]]

Promise ==
  INSTANCE Courier WITH
    Part <- Parts, MaxTries <- MaxRetries + 1,
    tries <- Tries, status <- Statuses, owed <- Owed, copies <- Copies

ImplementsCourier == Promise!Spec

\* Every call that begins ends, though threads of abandoned requests may hold
\* the pool for a while.  (Calls are finitely many and begin once, so one
\* eventuality says it for all.)
EveryCallEnds == <>[](\A n \in Call : at[n] \notin {"waiting", "sleeping"})
=============================================================================
