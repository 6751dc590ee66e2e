--------------------------- MODULE DeliveryProofs ---------------------------
(* Proofs about Delivery, for every stream, predicate, pool and number of  *)
(* retries.                                                                *)
EXTENDS Delivery, FiniteSetTheorems, SequenceTheorems, TLAPS

Status == {"idle", "waiting", "sleeping"} \cup Ended

\* What the variables hold, as far as the proofs need it.
Shape ==
  /\ exporter \in Exporter
  /\ at \in [Call -> Status]
  /\ plan = [n \in Call |-> plan[n]]
  /\ stage \in [Call -> Nat \ {0}]
  /\ attempt \in [Call -> Nat]
  /\ before \in [Call -> SUBSET Call]
  /\ thread = [r \in DOMAIN thread |-> thread[r]]
  /\ received \subseteq DOMAIN thread
  /\ overtaken \subseteq received

\* A request is one of an existing call, no further than the call itself.
RequestShape ==
  \A r \in DOMAIN thread :
    /\ r = [call |-> r.call, stage |-> r.stage, part |-> r.part, attempt |-> r.attempt]
    /\ r.call \in Call /\ r.stage \in Nat \ {0} /\ r.attempt \in Nat
    /\ r.stage <= stage[r.call]
    /\ r.attempt <= attempt[r.call]
    /\ exporter # "datadog" => r.part = 1
    /\ at[r.call] # "idle"

\* Only OTLP has several stages, only Datadog several requests in a stage, and
\* only the webhook exporter several attempts.
PlanShape ==
  \A n \in Call :
    /\ exporter # "datadog" => \A k \in DOMAIN plan[n] : DOMAIN plan[n][k] = {1}
    /\ exporter # "otlp" => DOMAIN plan[n] \subseteq {1} /\ stage[n] = 1
    /\ exporter # "webhook" => attempt[n] = 0
    /\ at[n] = "idle" => stage[n] = 1 /\ attempt[n] = 0
    /\ at[n] \in {"waiting", "sleeping"} => stage[n] \in DOMAIN plan[n]
    /\ at[n] = "sleeping" =>
         exporter = "webhook" /\ \A r \in DOMAIN thread : r.call = n => r.attempt < attempt[n]

\* What the call has left behind: acknowledged stages, failed attempts.
LeftBehind ==
  \A r \in DOMAIN thread :
    /\ r.stage < stage[r.call] => thread[r] = "ok"
    /\ r.attempt < attempt[r.call] => thread[r] \in Retryable
    /\ at[r.call] \in Ended /\ thread[r] \in {"queued", "running"} => Abandoned(r)

\* Every earlier stage has a request that was received and acknowledged.
StagesBehind ==
  /\ \A r \in DOMAIN thread : thread[r] = "ok" => r \in received
  /\ \A n \in Call : exporter # "datadog" /\ at[n] = "waiting" =>
       \E r \in DOMAIN thread : r.call = n /\ r.stage = stage[n] /\ r.attempt = attempt[n]
  /\ \A n \in Call, k \in Nat : 0 < k /\ k < stage[n] =>
       \E q \in received : q.call = n /\ q.stage = k /\ thread[q] = "ok"

\* Calls stay ended, and abandoned requests abandoned.
History ==
  /\ \A n \in Call : \A m \in before[n] : at[m] \in Ended
  /\ \A r \in overtaken : Abandoned(r)

IInv == Shape /\ RequestShape /\ PlanShape /\ LeftBehind /\ StagesBehind /\ History

-----------------------------------------------------------------------------
LEMMA StagesOfPlan ==
  ASSUME exporter \in Exporter, NEW events
  PROVE  /\ exporter # "datadog" =>
              \A k \in DOMAIN Plan(events) : DOMAIN Plan(events)[k] = {1}
         /\ exporter # "otlp" => DOMAIN Plan(events) \subseteq {1}
<1>0. /\ exporter = "webhook" => Plan(events) = WebhookPlan(events)
      /\ exporter = "otlp" => Plan(events) = OtlpPlan(events)
      /\ exporter = "datadog" => Plan(events) = DatadogPlan(events)
      /\ exporter = "loki" => Plan(events) = LokiPlan(events)
  BY Zenon DEF Plan
<1>1. CASE exporter = "webhook"
  BY <1>0, <1>1 DEF WebhookPlan
<1>2. CASE exporter = "otlp"
  <2> DEFINE spans == Chunks(SpansOf(events))
             logs == Chunks(LogsOf(events))
  <2>1. Plan(events) = [i \in 1 .. Len(spans) + Len(logs) |->
            IF i <= Len(spans) THEN <<Post("spans", spans[i])>>
            ELSE <<Post("logs", logs[i - Len(spans)])>>]
    BY <1>0, <1>2 DEF OtlpPlan
  <2> HIDE DEF spans, logs
  <2>2. \A k \in DOMAIN Plan(events) :
          \/ Plan(events)[k] = <<Post("spans", spans[k])>>
          \/ Plan(events)[k] = <<Post("logs", logs[k - Len(spans)])>>
    BY <2>1
  <2>3. \A x : DOMAIN <<x>> = {1}
    OBVIOUS
  <2> QED BY <1>2, <2>2, <2>3
<1>3. CASE exporter = "datadog"
  <2>1. \/ Plan(events) = <<>>
        \/ \E x : Plan(events) = <<x>>
    BY <1>0, <1>3, Zenon DEF DatadogPlan
  <2>2. DOMAIN <<>> = {} /\ \A x : DOMAIN <<x>> = {1}
    OBVIOUS
  <2> QED BY <1>3, <2>1, <2>2
<1>4. CASE exporter = "loki"
  BY <1>0, <1>4 DEF LokiPlan
<1> QED BY <1>1, <1>2, <1>3, <1>4 DEF Exporter

\* What Submit does to the threads.
LEMMA Submitted ==
  ASSUME NEW n, NEW k, NEW a, NEW posts, Submit(n, k, a, posts)
  PROVE  /\ thread' = [r \in DOMAIN thread' |-> thread'[r]]
         /\ \A r \in DOMAIN thread' :
              \/ r \in DOMAIN thread /\ thread'[r] = thread[r]
              \/ /\ thread'[r] = "queued"
                 /\ \E i \in DOMAIN posts :
                      r = [call |-> n, stage |-> k, part |-> i, attempt |-> a]
         /\ \A r \in DOMAIN thread :
              /\ r \in DOMAIN thread'
              /\ ~(r.call = n /\ r.stage = k /\ r.attempt = a) => thread'[r] = thread[r]
         /\ \A i \in DOMAIN posts :
              [call |-> n, stage |-> k, part |-> i, attempt |-> a] \in DOMAIN thread'
<1> DEFINE made == [i \in DOMAIN posts |->
                      [call |-> n, stage |-> k, part |-> i, attempt |-> a]]
           new == {made[i] : i \in DOMAIN posts}
<1>1. thread' = [r \in DOMAIN thread \cup new |-> IF r \in new THEN "queued" ELSE thread[r]]
  BY DEF Submit
<1>2. \A r \in new : \E i \in DOMAIN posts :
        r = [call |-> n, stage |-> k, part |-> i, attempt |-> a]
  OBVIOUS
<1>3. \A i \in DOMAIN posts :
        [call |-> n, stage |-> k, part |-> i, attempt |-> a] \in new
  OBVIOUS
<1>4. \A r \in new : r.call = n /\ r.stage = k /\ r.attempt = a
  BY <1>2
<1> HIDE DEF made, new
<1> QED BY <1>1, <1>2, <1>3, <1>4

-----------------------------------------------------------------------------
LEMMA InitInv == ASSUME Init PROVE IInv
<1>1. Shape
  BY DEF Init, Shape, Status, Ended
<1>2. RequestShape
  BY DEF Init, RequestShape
<1>3. PlanShape
  BY DEF Init, PlanShape, Ended
<1>4. LeftBehind
  BY DEF Init, LeftBehind
<1>5. StagesBehind
  BY DEF Init, StagesBehind
<1>6. History
  BY DEF Init, History
<1> QED BY <1>1, <1>2, <1>3, <1>4, <1>5, <1>6 DEF IInv

LEMMA StatusFacts ==
  /\ "idle" \notin Ended /\ "waiting" \notin Ended /\ "sleeping" \notin Ended
  /\ "returned" \in Ended /\ "raised" \in Ended
  /\ "escaped" \in Ended /\ "cancelled" \in Ended
  /\ Ended \subseteq Status
  /\ "idle" \in Status /\ "waiting" \in Status /\ "sleeping" \in Status
BY DEF Ended, Status

\* A call begins: it has no requests yet.
LEMMA BeginInv ==
  ASSUME IInv, NEW n \in Call, NEW predicate, Begin(n, predicate)
  PROVE  IInv'
<1> DEFINE events == Filter(Stream, predicate)
           stages == Plan(events)
<1>1. /\ at[n] = "idle"
      /\ plan' = [plan EXCEPT ![n] = stages]
      /\ before' = [before EXCEPT ![n] = {m \in Call : at[m] \in Ended}]
      /\ IF 1 \in DOMAIN stages
         THEN Goto(n, "waiting") /\ Submit(n, 1, 0, stages[1])
         ELSE Goto(n, "returned") /\ UNCHANGED executor
      /\ UNCHANGED <<exporter, stage, attempt, received, overtaken>>
  BY Zenon DEF Begin, network
<1>2. /\ exporter # "datadog" => \A k \in DOMAIN stages : DOMAIN stages[k] = {1}
      /\ exporter # "otlp" => DOMAIN stages \subseteq {1}
  BY StagesOfPlan DEF IInv, Shape
<1> HIDE DEF events, stages
<1>3. /\ Shape /\ RequestShape /\ PlanShape /\ LeftBehind /\ StagesBehind /\ History
  BY DEF IInv
<1>4. \A r \in DOMAIN thread : r.call # n
  BY <1>1, <1>3 DEF RequestShape
<1>5. stage[n] = 1 /\ attempt[n] = 0
  BY <1>1, <1>3 DEF PlanShape
<1>6. /\ thread' = [r \in DOMAIN thread' |-> thread'[r]]
      /\ \A r \in DOMAIN thread :
           r \in DOMAIN thread' /\ thread'[r] = thread[r]
      /\ \A r \in DOMAIN thread' :
           \/ r \in DOMAIN thread
           \/ /\ thread'[r] = "queued" /\ at'[n] = "waiting"
              /\ \E i \in DOMAIN stages[1] :
                   r = [call |-> n, stage |-> 1, part |-> i, attempt |-> 0]
      /\ at'[n] = "waiting" => \A i \in DOMAIN stages[1] :
           [call |-> n, stage |-> 1, part |-> i, attempt |-> 0] \in DOMAIN thread'
  <2>1. CASE 1 \in DOMAIN stages
    <3>1. Submit(n, 1, 0, stages[1]) /\ at' = [at EXCEPT ![n] = "waiting"]
      BY <1>1, <2>1 DEF Goto
    <3>2. at'[n] = "waiting"
      BY <1>3, <3>1 DEF Shape
    <3> QED BY <1>4, <3>1, <3>2, Submitted
  <2>2. CASE 1 \notin DOMAIN stages
    BY <1>1, <1>3, <2>2 DEF executor, Goto, Shape
  <2> QED BY <2>1, <2>2
<1>7. /\ at' = [at EXCEPT ![n] = at'[n]]
      /\ \/ at'[n] = "waiting" /\ 1 \in DOMAIN stages
         \/ at'[n] = "returned"
  BY <1>1, <1>3 DEF Goto, Shape
<1>8. Shape'
  <2>1. plan' = [m \in Call |-> plan'[m]]
    BY <1>1, <1>3 DEF Shape
  <2>2. before' \in [Call -> SUBSET Call]
    BY <1>1, <1>3 DEF Shape
  <2>3. at' \in [Call -> Status]
    BY <1>3, <1>7, StatusFacts DEF Shape
  <2> QED BY <1>1, <1>3, <1>6, <2>1, <2>2, <2>3 DEF Shape
<1>9. RequestShape'
  BY <1>1, <1>2, <1>3, <1>4, <1>5, <1>6, <1>7 DEF Shape, RequestShape
<1>10. PlanShape'
  BY <1>1, <1>2, <1>3, <1>4, <1>5, <1>6, <1>7 DEF Shape, PlanShape
<1>11. \A r \in DOMAIN thread : Abandoned(r) => Abandoned(r)'
  BY <1>1, <1>3, <1>4, <1>6, <1>7 DEF Shape, RequestShape, Abandoned
<1>12. LeftBehind'
  BY <1>1, <1>3, <1>4, <1>5, <1>6, <1>7, <1>11, StatusFacts DEF Shape, RequestShape, LeftBehind
<1>13. StagesBehind'
  <2>1. \A r \in DOMAIN thread' : thread'[r] = "ok" => r \in received'
    BY <1>1, <1>3, <1>6 DEF StagesBehind
  <2>2. ASSUME NEW m \in Call, exporter # "datadog", at'[m] = "waiting"
        PROVE  \E r \in DOMAIN thread' :
                 r.call = m /\ r.stage = stage'[m] /\ r.attempt = attempt'[m]
    <3>1. CASE m = n
      <4> DEFINE r == [call |-> n, stage |-> 1, part |-> 1, attempt |-> 0]
      <4>1. 1 \in DOMAIN stages[1]
        BY <1>2, <1>7, <2>2, <3>1
      <4>2. r \in DOMAIN thread'
        BY <1>6, <2>2, <3>1, <4>1
      <4> QED BY <1>1, <1>5, <3>1, <4>2
    <3>2. CASE m # n
      BY <1>1, <1>3, <1>6, <1>7, <2>2, <3>2 DEF Shape, StagesBehind
    <3> QED BY <3>1, <3>2
  <2>3. ASSUME NEW m \in Call, NEW k \in Nat, 0 < k, k < stage'[m]
        PROVE  \E q \in received' : q.call = m /\ q.stage = k /\ thread'[q] = "ok"
    BY <1>1, <1>3, <1>6, <2>3 DEF Shape, StagesBehind
  <2> QED BY <1>1, <2>1, <2>2, <2>3 DEF StagesBehind
<1>14. History'
  BY <1>1, <1>3, <1>6, <1>7, <1>11, StatusFacts DEF Shape, History
<1> QED BY <1>8, <1>9, <1>10, <1>12, <1>13, <1>14 DEF IInv

\* A request that no thread has finished is one its call is at.
LEMMA OpenIsCurrent ==
  ASSUME IInv, NEW r \in DOMAIN thread, thread[r] \in {"queued", "running"}
  PROVE  r \in Current(r.call)
<1>1. r.stage <= stage[r.call] /\ r.attempt <= attempt[r.call]
  BY DEF IInv, RequestShape
<1>2. ~(r.stage < stage[r.call]) /\ ~(r.attempt < attempt[r.call])
  BY DEF IInv, LeftBehind, Retryable
<1>3. /\ r.stage \in Nat /\ stage[r.call] \in Nat
      /\ r.attempt \in Nat /\ attempt[r.call] \in Nat
  BY DEF IInv, Shape, RequestShape
<1> QED BY <1>1, <1>2, <1>3 DEF Current

\* A call waits for one request at a time, but for Datadog.
LEMMA CurrentIsOne ==
  ASSUME IInv, exporter # "datadog", NEW n, NEW r \in Current(n), NEW q \in Current(n)
  PROVE  r = q
BY DEF IInv, RequestShape, Current

\* A call ends and its requests stay what they are.
LEMMA EndInv ==
  ASSUME IInv, NEW n \in Call, at[n] = "waiting", NEW outcome \in Ended, End(n, outcome),
         \/ \A r \in Current(n) : thread[r] \notin {"queued", "running"}
         \/ exporter = "datadog" /\ outcome \in {"raised", "escaped"}
  PROVE  IInv'
<1>1. /\ at' = [at EXCEPT ![n] = outcome]
      /\ UNCHANGED <<exporter, plan, stage, attempt, thread, received, before, overtaken>>
  BY DEF End, Goto, payload, executor, network
<1>2. Shape /\ RequestShape /\ PlanShape /\ LeftBehind /\ StagesBehind /\ History
  BY DEF IInv
<1>3. Shape'
  BY <1>1, <1>2, StatusFacts DEF Shape
<1>4. RequestShape'
  BY <1>1, <1>2, StatusFacts DEF Shape, RequestShape
<1>5. PlanShape'
  BY <1>1, <1>2, StatusFacts DEF Shape, PlanShape
<1>6. \A r \in DOMAIN thread : Abandoned(r) => Abandoned(r)'
  BY <1>1, <1>2 DEF Shape, RequestShape, Abandoned
<1>7. LeftBehind'
  <2>1. ASSUME NEW r \in DOMAIN thread,
               at'[r.call] \in Ended, thread[r] \in {"queued", "running"}
        PROVE  Abandoned(r)'
    <3>1. CASE r.call = n
      <4>1. r \in Current(n)
        BY <2>1, <3>1, OpenIsCurrent
      <4>2. exporter = "datadog" /\ outcome \in {"raised", "escaped"}
        BY <2>1, <4>1
      <4>3. at'[n] = outcome
        BY <1>1, <1>2 DEF Shape
      <4> QED BY <1>1, <3>1, <4>2, <4>3 DEF Abandoned
    <3>2. CASE r.call # n
      <4>1. at'[r.call] = at[r.call]
        BY <1>1, <1>2, <3>2 DEF Shape, RequestShape
      <4> QED BY <1>2, <1>6, <2>1, <4>1 DEF LeftBehind
    <3> QED BY <3>1, <3>2
  <2> QED BY <1>1, <1>2, <2>1 DEF LeftBehind
<1>8. StagesBehind'
  BY <1>1, <1>2, StatusFacts DEF Shape, StagesBehind
<1>9. History'
  BY <1>1, <1>2, <1>6 DEF Shape, History
<1> QED BY <1>3, <1>4, <1>5, <1>7, <1>8, <1>9 DEF IInv

LEMMA ReturnInv ==
  ASSUME IInv, NEW n \in Call, Return(n) PROVE IInv'
<1>1. at[n] = "waiting" /\ End(n, "returned")
  BY DEF Return
<1>2. \A r \in Current(n) : thread[r] \notin {"queued", "running"}
  BY DEF Return
<1> QED BY <1>1, <1>2, StatusFacts, EndInv

LEMMA RaiseInv ==
  ASSUME IInv, NEW n \in Call, Raise(n) \/ Escape(n) PROVE IInv'
<1>1. at[n] = "waiting"
  BY DEF Raise, Escape
<1>2. PICK outcome \in {"raised", "escaped"} : End(n, outcome)
  BY DEF Raise, Escape
<1>3. PICK q \in Current(n) : thread[q] \notin {"queued", "running"}
  BY DEF Raise, Escape, Retryable
<1>4. \/ \A r \in Current(n) : thread[r] \notin {"queued", "running"}
      \/ exporter = "datadog"
  BY <1>3, CurrentIsOne
<1> QED BY <1>1, <1>2, <1>4, StatusFacts, EndInv

\* The webhook exporter goes to sleep: the attempt it leaves behind failed.
LEMMA BackoffInv ==
  ASSUME IInv, NEW n \in Call, Backoff(n) PROVE IInv'
<1>1. /\ exporter = "webhook" /\ at[n] = "waiting"
      /\ at' = [at EXCEPT ![n] = "sleeping"]
      /\ attempt' = [attempt EXCEPT ![n] = @ + 1]
      /\ UNCHANGED <<exporter, plan, stage, thread, received, before, overtaken>>
  BY DEF Backoff, Retry, Goto, payload, executor, network
<1>2. Shape /\ RequestShape /\ PlanShape /\ LeftBehind /\ StagesBehind /\ History
  BY DEF IInv
<1>3. /\ at'[n] = "sleeping"
      /\ attempt[n] \in Nat /\ attempt'[n] = attempt[n] + 1
      /\ \A m \in Call : m # n => at'[m] = at[m] /\ attempt'[m] = attempt[m]
  BY <1>1, <1>2 DEF Shape
<1>4. ASSUME NEW r \in DOMAIN thread, r.call = n
      PROVE  thread[r] \in Retryable /\ r.attempt < attempt'[n]
  <2>1. PICK q \in Current(n) : thread[q] \in Retryable
    BY DEF Backoff
  <2>2. stage[n] = 1 /\ r.stage = 1
    <3>1. stage[n] = 1
      BY <1>1, <1>2 DEF PlanShape
    <3>2. r.stage \in Nat \ {0} /\ r.stage <= stage[n]
      BY <1>2, <1>4 DEF RequestShape
    <3> QED BY <3>1, <3>2
  <2>3. r.attempt \in Nat /\ r.attempt <= attempt[n]
    BY <1>2, <1>4 DEF RequestShape
  <2>4. CASE r.attempt = attempt[n]
    <3>1. r = q
      BY <1>1, <1>4, <2>1, <2>2, <2>4, CurrentIsOne DEF Current
    <3> QED BY <1>3, <2>1, <2>3, <3>1
  <2>5. CASE r.attempt < attempt[n]
    BY <1>2, <1>3, <1>4, <2>3, <2>5 DEF LeftBehind
  <2> QED BY <1>3, <2>3, <2>4, <2>5
<1>5. Shape'
  BY <1>1, <1>2, StatusFacts DEF Shape
<1>6. RequestShape'
  BY <1>1, <1>2, <1>3, <1>4 DEF RequestShape
<1>7. PlanShape'
  BY <1>1, <1>2, <1>3, <1>4 DEF PlanShape
<1>8. \A r \in DOMAIN thread : Abandoned(r) => Abandoned(r)'
  BY <1>1, <1>2, <1>3 DEF RequestShape, Abandoned
<1>9. LeftBehind'
  BY <1>1, <1>2, <1>3, <1>4, <1>8, StatusFacts DEF RequestShape, LeftBehind
<1>10. StagesBehind'
  BY <1>1, <1>2, <1>3 DEF StagesBehind
<1>11. History'
  BY <1>1, <1>2, <1>3, <1>8, StatusFacts DEF Shape, History
<1> QED BY <1>5, <1>6, <1>7, <1>9, <1>10, <1>11 DEF IInv

\* The next attempt: the same stage again.
LEMMA WakeInv ==
  ASSUME IInv, NEW n \in Call, Wake(n) PROVE IInv'
<1> DEFINE posts == plan[n][stage[n]]
<1>1. /\ at[n] = "sleeping" /\ at' = [at EXCEPT ![n] = "waiting"]
      /\ Submit(n, stage[n], attempt[n], posts)
      /\ UNCHANGED <<exporter, plan, stage, attempt, received, before, overtaken>>
  BY DEF Wake, Goto, payload, network
<1>2. Shape /\ RequestShape /\ PlanShape /\ LeftBehind /\ StagesBehind /\ History
  BY DEF IInv
<1>3. /\ exporter = "webhook"
      /\ DOMAIN posts = {1}
      /\ \A r \in DOMAIN thread : r.call = n => r.attempt < attempt[n]
  BY <1>1, <1>2 DEF PlanShape
<1> HIDE DEF posts
<1>4. /\ at'[n] = "waiting"
      /\ stage[n] \in Nat \ {0} /\ attempt[n] \in Nat
      /\ \A m \in Call : m # n => at'[m] = at[m]
  BY <1>1, <1>2, <1>3 DEF Shape, PlanShape
<1> DEFINE new == [call |-> n, stage |-> stage[n], part |-> 1, attempt |-> attempt[n]]
<1>5. /\ thread' = [r \in DOMAIN thread' |-> thread'[r]]
      /\ \A r \in DOMAIN thread : r \in DOMAIN thread' /\ thread'[r] = thread[r]
      /\ \A r \in DOMAIN thread' : r \notin DOMAIN thread => r = new /\ thread'[r] = "queued"
      /\ new \in DOMAIN thread'
  <2>1. \A r \in DOMAIN thread : r.call = n => r.attempt # attempt[n]
    BY <1>2, <1>3, <1>4 DEF RequestShape
  <2>2. /\ thread' = [r \in DOMAIN thread' |-> thread'[r]]
        /\ \A r \in DOMAIN thread' :
             \/ r \in DOMAIN thread /\ thread'[r] = thread[r]
             \/ /\ thread'[r] = "queued"
                /\ \E i \in DOMAIN posts :
                     r = [call |-> n, stage |-> stage[n], part |-> i,
                          attempt |-> attempt[n]]
        /\ \A r \in DOMAIN thread :
             /\ r \in DOMAIN thread'
             /\ ~(r.call = n /\ r.stage = stage[n] /\ r.attempt = attempt[n]) =>
                  thread'[r] = thread[r]
        /\ \A i \in DOMAIN posts :
             [call |-> n, stage |-> stage[n], part |-> i, attempt |-> attempt[n]]
               \in DOMAIN thread'
    BY <1>1, Submitted
  <2>3. \A r \in DOMAIN thread : r \in DOMAIN thread' /\ thread'[r] = thread[r]
    BY <2>1, <2>2
  <2>4. ASSUME NEW r \in DOMAIN thread', r \notin DOMAIN thread
        PROVE  r = new /\ thread'[r] = "queued"
    <3>1. thread'[r] = "queued"
      BY <2>2, <2>4
    <3>2. PICK i \in DOMAIN posts :
            r = [call |-> n, stage |-> stage[n], part |-> i, attempt |-> attempt[n]]
      BY <2>2, <2>4
    <3>3. i = 1
      BY <1>3
    <3> QED BY <3>1, <3>2, <3>3
  <2>5. new \in DOMAIN thread'
    BY <1>3, <2>2
  <2>6. thread' = [r \in DOMAIN thread' |-> thread'[r]]
    BY <2>2
  <2> QED BY <2>3, <2>4, <2>5, <2>6
<1>6. /\ new.call = n /\ new.stage = stage[n] /\ new.part = 1 /\ new.attempt = attempt[n]
      /\ new = [call |-> new.call, stage |-> new.stage, part |-> new.part,
                attempt |-> new.attempt]
  OBVIOUS
<1> HIDE DEF new
<1>7. Shape'
  BY <1>1, <1>2, <1>5, StatusFacts DEF Shape
<1>8. RequestShape'
  BY <1>1, <1>2, <1>4, <1>5, <1>6 DEF RequestShape
<1>9. PlanShape'
  BY <1>1, <1>2, <1>3, <1>4, <1>5, <1>6 DEF PlanShape
<1>10. \A r \in DOMAIN thread : Abandoned(r) => Abandoned(r)'
  BY <1>1, <1>2, <1>4, <1>5 DEF RequestShape, Abandoned
<1>11. LeftBehind'
  BY <1>1, <1>2, <1>4, <1>5, <1>6, <1>10, StatusFacts DEF RequestShape, LeftBehind
<1>12. StagesBehind'
  BY <1>1, <1>2, <1>4, <1>5, <1>6 DEF Shape, StagesBehind
<1>13. History'
  BY <1>1, <1>2, <1>4, <1>5, <1>10, StatusFacts DEF Shape, History
<1> QED BY <1>7, <1>8, <1>9, <1>11, <1>12, <1>13 DEF IInv

\* The next chunk of an OTLP call: the chunk before it was acknowledged.
LEMMA AdvanceInv ==
  ASSUME IInv, NEW n \in Call, Advance(n) PROVE IInv'
<1> DEFINE k == stage[n] + 1
           posts == plan[n][k]
<1>1. /\ at[n] = "waiting" /\ k \in DOMAIN plan[n]
      /\ \A r \in Current(n) : thread[r] = "ok"
      /\ stage' = [stage EXCEPT ![n] = k]
      /\ Submit(n, k, 0, posts)
      /\ UNCHANGED <<exporter, plan, at, attempt, received, before, overtaken>>
  BY DEF Advance, More, payload, network
<1>2. Shape /\ RequestShape /\ PlanShape /\ LeftBehind /\ StagesBehind /\ History
  BY DEF IInv
<1>3. stage[n] \in Nat \ {0} /\ k \in Nat \ {0} /\ k > stage[n] /\ k # 1
  BY <1>2 DEF Shape
<1>4. /\ exporter = "otlp" /\ attempt[n] = 0
      /\ DOMAIN posts = {1}
  BY <1>1, <1>2, <1>3 DEF PlanShape
<1> HIDE DEF posts
<1>5. \A r \in DOMAIN thread : r.call = n => r.stage < k /\ r.stage # k /\ thread[r] = "ok"
  <2> SUFFICES ASSUME NEW r \in DOMAIN thread, r.call = n
               PROVE  r.stage < k /\ r.stage # k /\ thread[r] = "ok"
    OBVIOUS
  <2>1. /\ r.stage \in Nat /\ r.stage <= stage[n]
        /\ r.attempt \in Nat /\ r.attempt <= attempt[n]
    BY <1>2 DEF RequestShape
  <2>2. thread[r] = "ok"
    <3>1. CASE r.stage < stage[n]
      BY <1>2, <3>1 DEF LeftBehind
    <3>2. CASE r.stage = stage[n]
      BY <1>1, <1>4, <2>1, <3>2 DEF Current
    <3> QED BY <1>3, <2>1, <3>1, <3>2
  <2> QED BY <1>3, <2>1, <2>2
<1>6. /\ stage'[n] = k
      /\ \A m \in Call : m # n => stage'[m] = stage[m]
  BY <1>1, <1>2 DEF Shape
<1> DEFINE new == [call |-> n, stage |-> k, part |-> 1, attempt |-> 0]
<1> HIDE DEF k
<1>7. /\ thread' = [r \in DOMAIN thread' |-> thread'[r]]
      /\ \A r \in DOMAIN thread : r \in DOMAIN thread' /\ thread'[r] = thread[r]
      /\ \A r \in DOMAIN thread' : r \notin DOMAIN thread => r = new /\ thread'[r] = "queued"
      /\ new \in DOMAIN thread'
  <2>1. /\ thread' = [r \in DOMAIN thread' |-> thread'[r]]
        /\ \A r \in DOMAIN thread' :
             \/ r \in DOMAIN thread /\ thread'[r] = thread[r]
             \/ /\ thread'[r] = "queued"
                /\ \E i \in DOMAIN posts :
                     r = [call |-> n, stage |-> k, part |-> i, attempt |-> 0]
        /\ \A r \in DOMAIN thread :
             /\ r \in DOMAIN thread'
             /\ ~(r.call = n /\ r.stage = k /\ r.attempt = 0) => thread'[r] = thread[r]
        /\ \A i \in DOMAIN posts :
             [call |-> n, stage |-> k, part |-> i, attempt |-> 0] \in DOMAIN thread'
    BY <1>1, Submitted
  <2>2. \A r \in DOMAIN thread : r \in DOMAIN thread' /\ thread'[r] = thread[r]
    BY <1>5, <2>1
  <2>3. ASSUME NEW r \in DOMAIN thread', r \notin DOMAIN thread
        PROVE  r = new /\ thread'[r] = "queued"
    <3>1. thread'[r] = "queued"
      BY <2>1, <2>3
    <3>2. PICK i \in DOMAIN posts :
            r = [call |-> n, stage |-> k, part |-> i, attempt |-> 0]
      BY <2>1, <2>3
    <3>3. i = 1
      BY <1>4
    <3> QED BY <3>1, <3>2, <3>3
  <2>4. new \in DOMAIN thread'
    BY <1>4, <2>1
  <2>5. thread' = [r \in DOMAIN thread' |-> thread'[r]]
    BY <2>1
  <2> QED BY <2>2, <2>3, <2>4, <2>5
<1>8. /\ new.call = n /\ new.stage = k /\ new.part = 1 /\ new.attempt = 0
      /\ new = [call |-> new.call, stage |-> new.stage, part |-> new.part,
                attempt |-> new.attempt]
  OBVIOUS
<1> HIDE DEF new
<1>9. Shape'
  BY <1>1, <1>2, <1>3, <1>7 DEF Shape
<1>10. RequestShape'
  BY <1>1, <1>2, <1>3, <1>4, <1>5, <1>6, <1>7, <1>8 DEF RequestShape
<1>11. PlanShape'
  BY <1>1, <1>2, <1>3, <1>4, <1>6, <1>7, <1>8 DEF PlanShape
<1>12. \A r \in DOMAIN thread : Abandoned(r) => Abandoned(r)'
  BY <1>1, <1>7 DEF Abandoned
<1>13. LeftBehind'
  BY <1>1, <1>2, <1>3, <1>4, <1>5, <1>6, <1>7, <1>8, <1>12, StatusFacts
     DEF RequestShape, LeftBehind
<1>14. StagesBehind'
  <2>1. \A r \in DOMAIN thread' : thread'[r] = "ok" => r \in received'
    BY <1>1, <1>2, <1>7 DEF StagesBehind
  <2>2. \A m \in Call : exporter' # "datadog" /\ at'[m] = "waiting" =>
          \E r \in DOMAIN thread' :
            r.call = m /\ r.stage = stage'[m] /\ r.attempt = attempt'[m]
    BY <1>1, <1>2, <1>4, <1>6, <1>7, <1>8 DEF StagesBehind
  <2>3. ASSUME NEW m \in Call, NEW j \in Nat, 0 < j, j < stage'[m]
        PROVE  \E q \in received' : q.call = m /\ q.stage = j /\ thread'[q] = "ok"
    <3>1. \A q \in received : thread[q] = "ok" => thread'[q] = "ok"
      BY <1>2, <1>7 DEF Shape
    <3>2. CASE m # n \/ j < stage[n]
      <4>1. \E q \in received : q.call = m /\ q.stage = j /\ thread[q] = "ok"
        BY <1>2, <1>6, <2>3, <3>2 DEF StagesBehind
      <4> QED BY <1>1, <3>1, <4>1
    <3>3. CASE m = n /\ j = stage[n]
      <4>1. PICK r \in DOMAIN thread : r.call = n /\ r.stage = stage[n]
        BY <1>1, <1>2, <1>4 DEF StagesBehind
      <4>2. thread[r] = "ok" /\ r \in received
        BY <1>2, <1>5, <4>1 DEF StagesBehind
      <4> QED BY <1>1, <3>1, <3>3, <4>1, <4>2
    <3> QED BY <1>3, <1>6, <2>3, <3>2, <3>3 DEF k
  <2> QED BY <2>1, <2>2, <2>3 DEF StagesBehind
<1>15. History'
  BY <1>1, <1>2, <1>7, <1>12 DEF Shape, History
<1> QED BY <1>9, <1>10, <1>11, <1>13, <1>14, <1>15 DEF IInv

\* The executor and the network change requests that are still open only.
LEMMA OpenInv ==
  ASSUME IInv, UNCHANGED <<exporter, plan, at, stage, attempt, received, before, overtaken>>,
         DOMAIN thread' = DOMAIN thread,
         thread' = [r \in DOMAIN thread' |-> thread'[r]],
         \A r \in DOMAIN thread :
           \/ thread'[r] = thread[r]
           \/ /\ thread[r] \in {"queued", "running"}
              /\ thread'[r] = "ok" => r \in received
  PROVE  IInv'
<1>1. Shape /\ RequestShape /\ PlanShape /\ LeftBehind /\ StagesBehind /\ History
  BY DEF IInv
<1>2. Shape' /\ RequestShape' /\ PlanShape'
  BY <1>1 DEF Shape, RequestShape, PlanShape
<1>3. \A r \in DOMAIN thread : Abandoned(r) => Abandoned(r)'
  BY DEF Abandoned
<1>4. LeftBehind'
  <2> SUFFICES ASSUME NEW r \in DOMAIN thread
               PROVE  /\ r.stage < stage[r.call] => thread'[r] = "ok"
                      /\ r.attempt < attempt[r.call] => thread'[r] \in Retryable
                      /\ at[r.call] \in Ended /\ thread'[r] \in {"queued", "running"} =>
                           Abandoned(r)'
    BY DEF LeftBehind
  <2>1. CASE thread'[r] = thread[r]
    BY <1>1, <1>3, <2>1 DEF LeftBehind
  <2>2. CASE thread[r] \in {"queued", "running"}
    BY <1>1, <1>3, <2>2 DEF LeftBehind, Retryable
  <2> QED BY <2>1, <2>2
<1>5. StagesBehind'
  <2>1. \A r \in DOMAIN thread : thread[r] = "ok" => thread'[r] = "ok"
    OBVIOUS
  <2>2. \A q \in received : thread[q] = "ok" => thread'[q] = "ok"
    BY <1>1, <2>1 DEF Shape
  <2>3. \A r \in DOMAIN thread' : thread'[r] = "ok" => r \in received'
    BY <1>1 DEF StagesBehind
  <2> QED BY <1>1, <2>2, <2>3 DEF StagesBehind
<1>6. History'
  BY <1>1, <1>3 DEF Shape, History
<1> QED BY <1>2, <1>4, <1>5, <1>6 DEF IInv

LEMMA ThreadInv ==
  ASSUME IInv, Thread PROVE IInv'
<1>1. Shape
  BY DEF IInv
<1>2. CASE Start
  <2>1. /\ thread' = [thread EXCEPT ![Head(queue)] = IF @ = "queued" THEN "running" ELSE @]
        /\ UNCHANGED <<exporter, plan, at, stage, attempt, received, before, overtaken>>
    BY <1>2 DEF Start, loop, payload, network
  <2>2. /\ DOMAIN thread' = DOMAIN thread
        /\ thread' = [r \in DOMAIN thread' |-> thread'[r]]
    BY <1>1, <2>1 DEF Shape
  <2>3. \A r \in DOMAIN thread : \/ thread'[r] = thread[r]
                                 \/ thread[r] = "queued" /\ thread'[r] = "running"
    BY <1>1, <2>1 DEF Shape
  <2> QED BY <2>1, <2>2, <2>3, OpenInv
<1>3. ASSUME NEW r \in Running, NEW result, Settle(r, result),
             result = "ok" => r \in received
      PROVE  IInv'
  <2>1. /\ thread' = [thread EXCEPT ![r] = result]
        /\ UNCHANGED <<exporter, plan, at, stage, attempt, received, before, overtaken>>
    BY <1>3 DEF Settle, loop, payload, network
  <2>2. r \in DOMAIN thread /\ thread[r] = "running"
    BY DEF Running
  <2>3. /\ DOMAIN thread' = DOMAIN thread
        /\ thread' = [q \in DOMAIN thread' |-> thread'[q]]
    BY <1>1, <2>1 DEF Shape
  <2>4. \A q \in DOMAIN thread : q # r => thread'[q] = thread[q]
    BY <1>1, <2>1 DEF Shape
  <2>5. thread'[r] = result
    BY <2>1, <2>2
  <2>6. \A q \in DOMAIN thread :
          \/ thread'[q] = thread[q]
          \/ /\ thread[q] \in {"queued", "running"}
             /\ thread'[q] = "ok" => q \in received
    BY <1>3, <2>2, <2>4, <2>5
  <2> QED BY <2>1, <2>3, <2>6, OpenInv
<1>4. ASSUME NEW r \in DOMAIN thread, Unreachable(r) PROVE IInv'
  BY <1>3, <1>4 DEF Unreachable
<1>5. ASSUME NEW r \in DOMAIN thread, Lose(r) PROVE IInv'
  BY <1>3, <1>5 DEF Lose
<1>6. ASSUME NEW r \in DOMAIN thread, NEW a \in Answer, Hear(r, a) PROVE IInv'
  BY <1>3, <1>6 DEF Hear
<1> QED BY <1>2, <1>4, <1>5, <1>6 DEF Thread

\* A cancelled call may leave anything behind but what was still queued.
LEMMA CancelInv ==
  ASSUME IInv, NEW n \in Call, Cancel(n) PROVE IInv'
<1>1. /\ at[n] \in {"waiting", "sleeping"} /\ at' = [at EXCEPT ![n] = "cancelled"]
      /\ thread' = [r \in DOMAIN thread |->
                      IF r.call = n /\ thread[r] = "queued" THEN "dropped" ELSE thread[r]]
      /\ UNCHANGED <<exporter, plan, stage, attempt, received, before, overtaken>>
  BY DEF Cancel, Goto, payload, network
<1>2. Shape /\ RequestShape /\ PlanShape /\ LeftBehind /\ StagesBehind /\ History
  BY DEF IInv
<1>3. at'[n] = "cancelled" /\ \A m \in Call : m # n => at'[m] = at[m]
  BY <1>1, <1>2 DEF Shape
<1>4. /\ DOMAIN thread' = DOMAIN thread
      /\ thread' = [r \in DOMAIN thread' |-> thread'[r]]
      /\ \A r \in DOMAIN thread :
           \/ thread'[r] = thread[r]
           \/ r.call = n /\ thread[r] = "queued" /\ thread'[r] = "dropped"
  BY <1>1
<1>5. Shape'
  BY <1>1, <1>2, <1>4, StatusFacts DEF Shape
<1>6. RequestShape'
  BY <1>1, <1>2, <1>3, <1>4 DEF RequestShape
<1>7. PlanShape'
  BY <1>1, <1>2, <1>3, <1>4 DEF PlanShape
<1>8. \A r \in DOMAIN thread : r.call = n \/ Abandoned(r) => Abandoned(r)'
  BY <1>1, <1>2, <1>3, <1>4 DEF RequestShape, Abandoned
<1>9. LeftBehind'
  <2> SUFFICES ASSUME NEW r \in DOMAIN thread
               PROVE  /\ r.stage < stage[r.call] => thread'[r] = "ok"
                      /\ r.attempt < attempt[r.call] => thread'[r] \in Retryable
                      /\ at'[r.call] \in Ended /\ thread'[r] \in {"queued", "running"} =>
                           Abandoned(r)'
    BY <1>1, <1>4 DEF LeftBehind
  <2>1. /\ r.stage < stage[r.call] => thread[r] = "ok"
        /\ r.attempt < attempt[r.call] => thread[r] \in Retryable
        /\ at[r.call] \in Ended /\ thread[r] \in {"queued", "running"} => Abandoned(r)
    BY <1>2 DEF LeftBehind
  <2>2. CASE thread'[r] = thread[r]
    <3>1. r.call # n => at'[r.call] = at[r.call]
      BY <1>2, <1>3 DEF RequestShape
    <3> QED BY <1>8, <2>1, <2>2, <3>1
  <2>3. CASE thread[r] = "queued" /\ thread'[r] = "dropped"
    BY <2>1, <2>3 DEF Retryable
  <2> QED BY <1>4, <2>2, <2>3
<1>10. StagesBehind'
  <2>1. \A r \in DOMAIN thread : thread[r] = "ok" <=> thread'[r] = "ok"
    BY <1>4
  <2>2. \A q \in received : thread[q] = "ok" => thread'[q] = "ok"
    BY <1>2, <2>1 DEF Shape
  <2>3. \A r \in DOMAIN thread' : thread'[r] = "ok" => r \in received'
    BY <1>1, <1>2, <1>4, <2>1 DEF StagesBehind
  <2>4. \A m \in Call : exporter' # "datadog" /\ at'[m] = "waiting" =>
          \E r \in DOMAIN thread' :
            r.call = m /\ r.stage = stage'[m] /\ r.attempt = attempt'[m]
    BY <1>1, <1>2, <1>3, <1>4 DEF StagesBehind
  <2>5. \A m \in Call, k \in Nat : 0 < k /\ k < stage'[m] =>
          \E q \in received' : q.call = m /\ q.stage = k /\ thread'[q] = "ok"
    <3> SUFFICES ASSUME NEW m \in Call, NEW k \in Nat, 0 < k /\ k < stage'[m]
                 PROVE  \E q \in received' : q.call = m /\ q.stage = k /\ thread'[q] = "ok"
      OBVIOUS
    <3>1. PICK q \in received : q.call = m /\ q.stage = k /\ thread[q] = "ok"
      BY <1>1, <1>2 DEF StagesBehind
    <3> QED BY <1>1, <2>2, <3>1
  <2> QED BY <2>3, <2>4, <2>5 DEF StagesBehind
<1>11. History'
  BY <1>1, <1>2, <1>3, <1>8, StatusFacts DEF Shape, History
<1> QED BY <1>5, <1>6, <1>7, <1>9, <1>10, <1>11 DEF IInv

\* A request that arrives late, in the order of calls, is an abandoned one.
LEMMA ReceiveInv ==
  ASSUME IInv, NEW r \in DOMAIN thread, Receive(r) PROVE IInv'
<1>1. /\ thread[r] \in {"running", "lost"}
      /\ received' = received \cup {r}
      /\ overtaken' = IF \E q \in received : r.call \in before[q.call]
                      THEN overtaken \cup {r} ELSE overtaken
      /\ UNCHANGED <<exporter, plan, at, stage, attempt, thread, before>>
  BY DEF Receive, loop, payload, executor
<1>2. Shape /\ RequestShape /\ PlanShape /\ LeftBehind /\ StagesBehind /\ History
  BY DEF IInv
<1>3. Shape' /\ RequestShape' /\ PlanShape'
  BY <1>1, <1>2 DEF Shape, RequestShape, PlanShape
<1>4. \A q \in DOMAIN thread : Abandoned(q) <=> Abandoned(q)'
  BY <1>1 DEF Abandoned
<1>5. LeftBehind'
  BY <1>1, <1>2, <1>4 DEF LeftBehind
<1>6. StagesBehind'
  BY <1>1, <1>2 DEF StagesBehind
<1>7. ASSUME NEW q \in received, r.call \in before[q.call] PROVE Abandoned(r)
  <2>1. q.call \in Call
    BY <1>2 DEF Shape, RequestShape
  <2>2. at[r.call] \in Ended
    BY <1>2, <1>7, <2>1 DEF History
  <2>3. CASE thread[r] = "lost"
    BY <2>3 DEF Abandoned
  <2>4. CASE thread[r] = "running"
    BY <1>2, <2>2, <2>4 DEF LeftBehind
  <2> QED BY <1>1, <2>3, <2>4
<1>8. History'
  <2>1. \A n \in Call : \A m \in before'[n] : at'[m] \in Ended
    BY <1>1, <1>2 DEF History
  <2>2. \A q \in overtaken' : Abandoned(q)
    BY <1>1, <1>2, <1>7 DEF History
  <2> QED BY <1>1, <1>2, <1>3, <1>4, <2>1, <2>2 DEF Shape, History
<1> QED BY <1>3, <1>5, <1>6, <1>8 DEF IInv

-----------------------------------------------------------------------------
LEMMA InductiveInvariant == Spec => []IInv
<1>1. Init => IInv
  BY InitInv
<1>2. IInv /\ [Next]_vars => IInv'
  <2> SUFFICES ASSUME IInv, [Next]_vars PROVE IInv'
    OBVIOUS
  <2>1. ASSUME NEW n \in Call, NEW predicate \in Predicate, Begin(n, predicate) PROVE IInv'
    BY <2>1, BeginInv
  <2>2. ASSUME NEW n \in Call, Loop(n) PROVE IInv'
    BY <2>2, AdvanceInv, ReturnInv, BackoffInv, WakeInv, RaiseInv DEF Loop
  <2>3. ASSUME NEW n \in Call, Cancel(n) PROVE IInv'
    BY <2>3, CancelInv
  <2>4. CASE Thread
    BY <2>4, ThreadInv
  <2>5. ASSUME NEW r \in DOMAIN thread, Receive(r) PROVE IInv'
    BY <2>5, ReceiveInv
  <2>6. CASE UNCHANGED vars
    BY <2>6 DEF vars, payload, executor, network, IInv, Shape, RequestShape, PlanShape,
                LeftBehind, StagesBehind, History, Abandoned
  <2> QED BY <2>1, <2>2, <2>3, <2>4, <2>5, <2>6 DEF Next
<1> QED BY <1>1, <1>2, PTL DEF Spec

\* Nothing of a call that has ended is received, unless it was abandoned to a
\* timeout, a cancellation or a failed Datadog sibling (webhook.py:166-228,
\* otlp.py:492-530, datadog.py:322-353, grafana.py:130-168).
THEOREM QuietAfterEndHolds == Spec => []QuietAfterEnd
<1>1. IInv => QuietAfterEnd
  BY DEF IInv, LeftBehind, QuietAfterEnd, MayArrive, Abandoned
<1> QED BY <1>1, InductiveInvariant, PTL

\* A request that arrives after one of a later call is an abandoned one
\* (webhook.py:185-225, datadog.py:353).
THEOREM InOrderHolds == Spec => []InOrder
<1>1. IInv => InOrder
  BY DEF IInv, History, InOrder
<1> QED BY <1>1, InductiveInvariant, PTL

\* A second copy of a body goes out only after the first was lost or answered
\* with a failure (webhook.py:185-225).
THEOREM DuplicatesAreRetries == Spec => []DuplicateOnlyAfterFailure
<1>1. IInv => DuplicateOnlyAfterFailure
  <2> SUFFICES ASSUME IInv, NEW r \in received, NEW q \in received,
                      r.call = q.call, r.attempt < q.attempt
               PROVE  thread[r] \in Retryable
    BY DEF DuplicateOnlyAfterFailure, Retryable
  <2>1. r \in DOMAIN thread /\ q \in DOMAIN thread
    BY DEF IInv, Shape
  <2>2. /\ r.attempt \in Nat /\ q.attempt \in Nat /\ q.attempt <= attempt[r.call]
        /\ attempt[r.call] \in Nat
    BY <2>1 DEF IInv, Shape, RequestShape
  <2> QED BY <2>1, <2>2 DEF IInv, LeftBehind
<1> QED BY <1>1, InductiveInvariant, PTL

\* When a chunk of an OTLP call has been received, every earlier chunk was
\* received and acknowledged (otlp.py:523-528).
THEOREM ChunksInOrder == Spec => []StagesInOrder
<1>1. IInv => StagesInOrder
  <2> SUFFICES ASSUME IInv, NEW r \in received, NEW k \in 1 .. Len(Stream), k < r.stage
               PROVE  \E q \in received : q.call = r.call /\ q.stage = k /\ thread[q] = "ok"
    BY DEF StagesInOrder
  <2>1. /\ r.call \in Call /\ r.stage \in Nat /\ r.stage <= stage[r.call]
        /\ stage[r.call] \in Nat
    BY DEF IInv, Shape, RequestShape
  <2>2. Len(Stream) \in Nat
    BY DeliveryAssumption
  <2>3. k \in Nat /\ 0 < k /\ k < stage[r.call]
    BY <2>1, <2>2
  <2> QED BY <2>1, <2>3 DEF IInv, StagesBehind
<1> QED BY <1>1, InductiveInvariant, PTL

-----------------------------------------------------------------------------
(* What a call sends covers its batch.                                     *)

\* A filter keeps the members in the set, and nothing else.
LEMMA FilterFacts ==
  ASSUME NEW s \in Seq(Event), NEW S
  PROVE  LET kept == {i \in DOMAIN s : s[i] \in S}
         IN  /\ Filter(s, S) \in Seq(Event)
             /\ Len(Filter(s, S)) = Cardinality(kept)
             /\ IsFiniteSet(kept) /\ Cardinality(kept) <= Len(s)
             /\ \A i \in kept : \E k \in DOMAIN Filter(s, S) : Filter(s, S)[k] = s[i]
<1> DEFINE kept == {i \in DOMAIN s : s[i] \in S}
           upto(i) == {j \in kept : j <= i}
           rank == [i \in kept |-> Cardinality(upto(i))]
           N == Cardinality(kept)
<1>1. Filter(s, S) = [k \in 1 .. N |-> s[CHOOSE i \in kept : rank[i] = k]]
  BY DEF Filter
<1>2. IsFiniteSet(kept) /\ N \in Nat /\ N <= Len(s)
  <2>1. Len(s) \in Nat /\ IsFiniteSet(1 .. Len(s)) /\ Cardinality(1 .. Len(s)) = Len(s)
    <3>1. Len(s) \in Nat
      OBVIOUS
    <3>2. /\ IsFiniteSet(1 .. Len(s))
          /\ Cardinality(1 .. Len(s)) = IF 1 > Len(s) THEN 0 ELSE Len(s) - 1 + 1
      BY <3>1, FS_Interval
    <3> QED BY <3>1, <3>2
  <2>2. kept \subseteq 1 .. Len(s)
    OBVIOUS
  <2> HIDE DEF kept
  <2>3. IsFiniteSet(kept) /\ N <= Len(s)
    BY <2>1, <2>2, FS_Subset
  <2> QED BY <2>1, <2>3, FS_CardinalityType
<1>3. \A i \in kept : i \in Nat /\ s[i] \in Event
  OBVIOUS
<1> HIDE DEF kept
<1>4. ASSUME NEW i \in kept
      PROVE  /\ upto(i) \subseteq kept /\ i \in upto(i) /\ IsFiniteSet(upto(i))
             /\ Cardinality(upto(i)) \in 1 .. N
  <2>1. upto(i) \subseteq kept /\ i \in upto(i)
    BY <1>3
  <2>2. IsFiniteSet(upto(i)) /\ Cardinality(upto(i)) <= N /\ Cardinality(upto(i)) \in Nat
    BY <1>2, <2>1, FS_Subset, FS_CardinalityType
  <2>3. Cardinality(upto(i)) # 0
    BY <2>1, <2>2, FS_EmptySet
  <2> QED BY <1>2, <2>1, <2>2, <2>3
<1>5. ASSUME NEW i \in kept, NEW j \in kept, i < j
      PROVE  Cardinality(upto(i)) # Cardinality(upto(j))
  <2>1. upto(i) \subseteq upto(j) /\ j \notin upto(i)
    BY <1>3, <1>5
  <2> HIDE DEF upto
  <2>2. Cardinality(upto(j)) = Cardinality(upto(i)) => upto(j) = upto(i)
    BY <1>4, <2>1, FS_Subset
  <2> QED BY <1>4, <2>1, <2>2
<1>6. rank \in Injection(kept, 1 .. N)
  <2>1. rank \in [kept -> 1 .. N]
    BY <1>4
  <2>2. ASSUME NEW i \in kept, NEW j \in kept, i # j PROVE rank[i] # rank[j]
    <3>1. i < j \/ j < i
      BY <1>3, <2>2
    <3>2. Cardinality(upto(i)) # Cardinality(upto(j))
      BY <1>5, <3>1
    <3> HIDE DEF upto
    <3> QED BY <3>2
  <2> QED BY <2>1, <2>2 DEF Injection, IsInjective
<1> HIDE DEF rank
<1>7. rank \in Surjection(kept, 1 .. N)
  <2>1. IsFiniteSet(1 .. N) /\ Cardinality(1 .. N) = IF 1 > N THEN 0 ELSE N - 1 + 1
    <3>1. 1 \in Int /\ N \in Int
      BY <1>2
    <3> HIDE DEF N
    <3> QED BY <3>1, FS_Interval
  <2>2. Cardinality(1 .. N) = N
    BY <1>2, <2>1
  <2>3. Cardinality(kept) = Cardinality(1 .. N) <=> rank \in Surjection(kept, 1 .. N)
    BY <1>6, <2>1, FS_Injection
  <2> QED BY <2>2, <2>3
<1>8. ASSUME NEW k \in 1 .. N
      PROVE  /\ (CHOOSE i \in kept : rank[i] = k) \in kept
             /\ rank[CHOOSE i \in kept : rank[i] = k] = k
  <2>1. \E i \in kept : rank[i] = k
    BY <1>7 DEF Surjection
  <2> QED BY <2>1
<1>9. Filter(s, S) \in Seq(Event) /\ Len(Filter(s, S)) = N
  <2>1. \A k \in 1 .. N : s[CHOOSE i \in kept : rank[i] = k] \in Event
    BY <1>3, <1>8
  <2>2. Filter(s, S) \in [1 .. N -> Event]
    BY <1>1, <2>1
  <2> QED BY <1>2, <2>2
<1>10. ASSUME NEW i \in kept
       PROVE  \E k \in DOMAIN Filter(s, S) : Filter(s, S)[k] = s[i]
  <2>1. rank[i] \in 1 .. N /\ \A j \in kept : rank[j] = rank[i] => j = i
    <3>1. /\ rank \in [kept -> 1 .. N]
          /\ \A j, k \in kept : j # k => rank[j] # rank[k]
      BY <1>6 DEF Injection, IsInjective
    <3> QED BY <3>1
  <2>2. (CHOOSE j \in kept : rank[j] = rank[i]) = i
    BY <1>8, <2>1
  <2>3. Filter(s, S)[rank[i]] = s[i] /\ rank[i] \in DOMAIN Filter(s, S)
    BY <1>1, <2>1, <2>2
  <2> QED BY <2>3
<1> QED BY <1>2, <1>9, <1>10 DEF kept

LEMMA Division ==
  ASSUME NEW a \in Nat, NEW b \in Nat \ {0}
  PROVE  a \div b \in Nat /\ (a \div b) * b <= a /\ a < (a \div b) * b + b
OBVIOUS

LEMMA Multiples ==
  ASSUME NEW a \in Nat, NEW c \in Nat, NEW b \in Nat \ {0}
  PROVE  /\ a * b \in Nat /\ a <= a * b /\ (a + 1) * b = a * b + b
         /\ a <= c => a * b <= c * b
OBVIOUS

\* Every member of a sequence is in one of its chunks.
LEMMA ChunksFacts ==
  ASSUME NEW s \in Seq(Event)
  PROVE  /\ Len(Chunks(s)) \in 0 .. Len(s) /\ DOMAIN Chunks(s) = 1 .. Len(Chunks(s))
         /\ \A j \in DOMAIN s : \E i \in DOMAIN Chunks(s) :
              \E k \in DOMAIN Chunks(s)[i] : Chunks(s)[i][k] = s[j]
<1> DEFINE L == Len(s)
           B == BatchSize
           c == (L + B - 1) \div B
<1>1. L \in Nat /\ B \in Nat \ {0} /\ DOMAIN s = 1 .. L /\ \A j \in 1 .. L : s[j] \in Event
  BY DeliveryAssumption
<1>2. Chunks(s) = [i \in 1 .. c |-> SubSeq(s, (i - 1) * B + 1, AtMost(i * B, L))]
  BY DEF Chunks
<1> HIDE DEF L, B
<1>3. c \in Nat /\ c * B <= L + B - 1 /\ L + B - 1 < c * B + B
  <2>1. L + B - 1 \in Nat
    BY <1>1
  <2> QED BY <1>1, <2>1, Division
<1> HIDE DEF c
<1>4. c <= L
  <2>1. CASE c >= L + 1
    <3>1. L <= L * B /\ (L + 1) * B = L * B + B /\ L * B \in Nat
      BY <1>1, Multiples
    <3>2. (L + 1) * B <= c * B
      BY <1>1, <1>3, <2>1, Multiples
    <3>3. c * B \in Nat
      BY <1>1, <1>3, Multiples
    <3> QED BY <1>1, <1>3, <3>1, <3>2, <3>3
  <2> QED BY <1>1, <1>3, <2>1
<1>5. Len(Chunks(s)) = c /\ DOMAIN Chunks(s) = 1 .. c
  BY <1>2, <1>3
<1>6. ASSUME NEW j \in 1 .. L
      PROVE  \E i \in DOMAIN Chunks(s) :
               \E k \in DOMAIN Chunks(s)[i] : Chunks(s)[i][k] = s[j]
  <2> DEFINE q == (j - 1) \div B
             from == q * B + 1
             to == AtMost((q + 1) * B, L)
  <2>1. q \in Nat /\ q * B <= j - 1 /\ j - 1 < q * B + B /\ q * B \in Nat /\ j \in Nat
    <3>1. j - 1 \in Nat /\ j \in Nat
      BY <1>1
    <3>2. q \in Nat /\ q * B <= j - 1 /\ j - 1 < q * B + B
      BY <1>1, <3>1, Division
    <3> HIDE DEF q
    <3> QED BY <1>1, <3>1, <3>2, Multiples
  <2> HIDE DEF q
  <2>2. q + 1 \in 1 .. c
    <3> SUFFICES ASSUME c <= q PROVE FALSE
      BY <1>3, <2>1
    <3>1. c * B <= q * B /\ c * B \in Nat
      BY <1>1, <1>3, <2>1, Multiples
    <3> QED BY <1>1, <1>3, <2>1, <3>1
  <2>3. /\ (q + 1) * B = q * B + B
        /\ from \in 1 .. L /\ to \in Nat /\ from <= j /\ j <= to /\ to <= L
    <3>1. (q + 1) * B = q * B + B
      BY <1>1, <2>1, Multiples
    <3> QED BY <1>1, <2>1, <3>1 DEF AtMost
  <2>4. Chunks(s)[q + 1] = SubSeq(s, from, to)
    <3>1. (q + 1) - 1 = q
      BY <2>1
    <3> QED BY <1>2, <2>2, <3>1
  <2> HIDE DEF from, to
  <2>5. /\ SubSeq(s, from, to) \in Seq(Event)
        /\ Len(SubSeq(s, from, to)) = IF from <= to THEN to - from + 1 ELSE 0
        /\ \A k \in 1 .. to - from + 1 : SubSeq(s, from, to)[k] = s[from + k - 1]
    <3>1. from \in Int /\ to \in Int /\ \A k \in from .. to : s[k] \in Event
      BY <1>1, <2>3
    <3> QED BY <3>1, SubSeqProperties
  <2>6. /\ j - from + 1 \in 1 .. to - from + 1 /\ from + (j - from + 1) - 1 = j
        /\ from <= to /\ to - from + 1 \in Nat
    BY <2>1, <2>3
  <2>7. DOMAIN SubSeq(s, from, to) = 1 .. to - from + 1
    BY <2>5, <2>6
  <2>8. SubSeq(s, from, to)[j - from + 1] = s[j]
    BY <2>5, <2>6
  <2> QED BY <1>5, <2>2, <2>4, <2>6, <2>7, <2>8
<1> QED BY <1>1, <1>3, <1>4, <1>5, <1>6 DEF L

\* The destinations of an event by exporter.
Goes(x, e) ==
  {d \in {"webhook", "loki", "spans", "logs", "traces", "metrics"} :
     \/ d = x
     \/ x = "otlp" /\ d = IF e \in Traced THEN "spans" ELSE "logs"
     \/ x = "datadog" /\ d = "traces" /\ e \in Traced
     \/ x = "datadog" /\ d = "metrics" /\ e \in Metered /\ ApiKey}

\* The stages p bring event e to destination d.
Brings(p, e, d) ==
  \E k \in DOMAIN p : \E j \in DOMAIN p[k] :
    p[k][j].to = d /\ \E h \in DOMAIN p[k][j].events : p[k][j].events[h] = e

\* The stages p of exporter x bring every event of batch b where it has to go.
Sound(x, b, p) ==
  /\ \E m \in 0 .. Len(Stream) : DOMAIN p = 1 .. m
  /\ \A k \in DOMAIN p : \E m \in 1 .. 2 : DOMAIN p[k] = 1 .. m
  /\ \A i \in DOMAIN b : \A d \in Goes(x, b[i]) : Brings(p, b[i], d)

LEMMA GoesFacts ==
  ASSUME exporter \in Exporter, NEW e PROVE Destinations(e) = Goes(exporter, e)
<1>1. CASE exporter = "webhook"
  BY <1>1 DEF Destinations, Goes
<1>2. CASE exporter = "otlp"
  BY <1>2 DEF Destinations, Goes
<1>3. CASE exporter = "datadog"
  BY <1>3 DEF Destinations, Goes
<1>4. CASE exporter = "loki"
  BY <1>4 DEF Destinations, Goes
<1> QED BY <1>1, <1>2, <1>3, <1>4 DEF Exporter

LEMMA SinglePost ==
  ASSUME NEW to, NEW events, NEW p, p = << <<Post(to, events)>> >>
  PROVE  /\ DOMAIN p = 1 .. 1 /\ DOMAIN p[1] = 1 .. 1
         /\ \A h \in DOMAIN events : Brings(p, events[h], to)
<1>1. /\ DOMAIN p = 1 .. 1 /\ DOMAIN p[1] = 1 .. 1
      /\ p[1][1].to = to /\ p[1][1].events = events
  BY DEF Post
<1>2. 1 \in 1 .. 1
  OBVIOUS
<1> QED BY <1>1, <1>2 DEF Brings

LEMMA OtlpSound ==
  ASSUME NEW b \in Seq(Event), Len(b) <= Len(Stream) PROVE Sound("otlp", b, OtlpPlan(b))
<1> DEFINE spans == Chunks(SpansOf(b))
           logs == Chunks(LogsOf(b))
           p == OtlpPlan(b)
           traced == {i \in DOMAIN b : b[i] \in Traced}
           others == {i \in DOMAIN b : b[i] \in Event \ Traced}
<1>1. p = [i \in 1 .. Len(spans) + Len(logs) |->
             IF i <= Len(spans) THEN <<Post("spans", spans[i])>>
             ELSE <<Post("logs", logs[i - Len(spans)])>>]
  BY DEF OtlpPlan
<1>2. /\ SpansOf(b) \in Seq(Event) /\ Len(SpansOf(b)) = Cardinality(traced)
      /\ IsFiniteSet(traced)
      /\ \A i \in traced : \E k \in DOMAIN SpansOf(b) : SpansOf(b)[k] = b[i]
  BY FilterFacts DEF SpansOf
<1>3. /\ LogsOf(b) \in Seq(Event) /\ Len(LogsOf(b)) = Cardinality(others)
      /\ IsFiniteSet(others)
      /\ \A i \in others : \E k \in DOMAIN LogsOf(b) : LogsOf(b)[k] = b[i]
  BY FilterFacts DEF LogsOf
<1>4. /\ Len(spans) \in 0 .. Len(SpansOf(b)) /\ DOMAIN spans = 1 .. Len(spans)
      /\ \A k \in DOMAIN SpansOf(b) : \E i \in DOMAIN spans :
           \E h \in DOMAIN spans[i] : spans[i][h] = SpansOf(b)[k]
  BY <1>2, ChunksFacts
<1>5. /\ Len(logs) \in 0 .. Len(LogsOf(b)) /\ DOMAIN logs = 1 .. Len(logs)
      /\ \A k \in DOMAIN LogsOf(b) : \E i \in DOMAIN logs :
           \E h \in DOMAIN logs[i] : logs[i][h] = LogsOf(b)[k]
  BY <1>3, ChunksFacts
<1>6. /\ Cardinality(traced) + Cardinality(others) <= Len(b)
      /\ Cardinality(traced) \in Nat /\ Cardinality(others) \in Nat
  <2>1. traced \cap others = {} /\ traced \cup others \subseteq 1 .. Len(b) /\ Len(b) \in Nat
    OBVIOUS
  <2>2. Cardinality(traced) \in Nat /\ Cardinality(others) \in Nat
    BY <1>2, <1>3, FS_CardinalityType
  <2> HIDE DEF traced, others
  <2>3. Cardinality(traced \cup others) =
          Cardinality(traced) + Cardinality(others) - Cardinality(traced \cap others)
    BY <1>2, <1>3, FS_Union
  <2>4. Cardinality(traced \cap others) = 0
    BY <2>1, FS_EmptySet
  <2>5. /\ IsFiniteSet(1 .. Len(b))
        /\ Cardinality(1 .. Len(b)) = IF 1 > Len(b) THEN 0 ELSE Len(b) - 1 + 1
    <3>1. 1 \in Int /\ Len(b) \in Int
      BY <2>1
    <3> QED BY <3>1, FS_Interval
  <2>6. Cardinality(traced \cup others) <= Cardinality(1 .. Len(b))
    BY <2>1, <2>5, FS_Subset
  <2> QED BY <2>1, <2>2, <2>3, <2>4, <2>5, <2>6
<1>7. \A i \in DOMAIN b : b[i] \in Event /\ (i \in traced \/ i \in others)
  OBVIOUS
<1>8. Len(Stream) \in Nat /\ Len(b) \in Nat
  BY DeliveryAssumption
<1>9. \A i \in traced : b[i] \in Traced
  OBVIOUS
<1>10. \A i \in others : b[i] \notin Traced
  OBVIOUS
<1> HIDE DEF spans, logs, p, traced, others
<1>11. Len(spans) + Len(logs) \in 0 .. Len(Stream) /\ Len(spans) \in Nat /\ Len(logs) \in Nat
  BY <1>2, <1>3, <1>4, <1>5, <1>6, <1>8
<1>12. DOMAIN p = 1 .. Len(spans) + Len(logs)
  BY <1>1
<1>13. \A k \in DOMAIN p : DOMAIN p[k] = 1 .. 1
  <2>1. \A x : DOMAIN <<x>> = 1 .. 1
    OBVIOUS
  <2>2. \A k \in DOMAIN p : \E x : p[k] = <<x>>
    BY <1>1
  <2> QED BY <2>1, <2>2
<1>14. \A i \in DOMAIN spans : p[i] = <<Post("spans", spans[i])>> /\ i \in DOMAIN p
  BY <1>1, <1>4, <1>11
<1>15. \A i \in DOMAIN logs :
         p[Len(spans) + i] = <<Post("logs", logs[i])>> /\ Len(spans) + i \in DOMAIN p
  <2> SUFFICES ASSUME NEW i \in DOMAIN logs
               PROVE  /\ p[Len(spans) + i] = <<Post("logs", logs[i])>>
                      /\ Len(spans) + i \in DOMAIN p
    OBVIOUS
  <2>1. /\ Len(spans) + i \in 1 .. Len(spans) + Len(logs)
        /\ ~(Len(spans) + i <= Len(spans)) /\ (Len(spans) + i) - Len(spans) = i
    BY <1>5, <1>11
  <2> QED BY <1>1, <2>1
<1>16. ASSUME NEW k \in DOMAIN p, NEW to, NEW events, NEW h \in DOMAIN events,
              p[k] = <<Post(to, events)>>
       PROVE  Brings(p, events[h], to)
  <2>1. p[k][1].to = to /\ p[k][1].events = events /\ 1 \in DOMAIN p[k]
    BY <1>16 DEF Post
  <2> QED BY <2>1 DEF Brings
<1>17. ASSUME NEW i \in DOMAIN b, NEW d \in Goes("otlp", b[i]) PROVE Brings(p, b[i], d)
  <2>1. CASE b[i] \in Traced
    <3>1. d = "spans" /\ i \in traced
      BY <1>7, <1>10, <2>1 DEF Goes
    <3>2. PICK k \in DOMAIN SpansOf(b) : SpansOf(b)[k] = b[i]
      BY <1>2, <3>1
    <3>3. PICK c \in DOMAIN spans : \E h \in DOMAIN spans[c] : spans[c][h] = b[i]
      BY <1>4, <3>2
    <3>4. PICK h \in DOMAIN spans[c] : spans[c][h] = b[i]
      BY <3>3
    <3>5. p[c] = <<Post("spans", spans[c])>> /\ c \in DOMAIN p
      BY <1>14
    <3> QED BY <1>16, <3>1, <3>4, <3>5
  <2>2. CASE b[i] \notin Traced
    <3>1. d = "logs" /\ i \in others
      BY <1>7, <1>9, <2>2 DEF Goes
    <3>2. PICK k \in DOMAIN LogsOf(b) : LogsOf(b)[k] = b[i]
      BY <1>3, <3>1
    <3>3. PICK c \in DOMAIN logs : \E h \in DOMAIN logs[c] : logs[c][h] = b[i]
      BY <1>5, <3>2
    <3>4. PICK h \in DOMAIN logs[c] : logs[c][h] = b[i]
      BY <3>3
    <3>5. p[Len(spans) + c] = <<Post("logs", logs[c])>> /\ Len(spans) + c \in DOMAIN p
      BY <1>15
    <3> QED BY <1>16, <3>1, <3>4, <3>5
  <2> QED BY <2>1, <2>2
<1>18. \A k \in DOMAIN p : \E m \in 1 .. 2 : DOMAIN p[k] = 1 .. m
  BY <1>13
<1>19. Sound("otlp", b, p)
  BY <1>11, <1>12, <1>17, <1>18 DEF Sound
<1> QED BY <1>19 DEF p

LEMMA Pair ==
  ASSUME NEW a, NEW b PROVE <<a>> \o <<b>> = <<a, b>>
<1> DEFINE s == <<a>> \o <<b>>
           t == <<a, b>>
<1>1. s \in Seq({a, b}) /\ Len(s) = 2 /\ s[1] = a /\ s[2] = b
  OBVIOUS
<1>2. t \in Seq({a, b}) /\ Len(t) = 2 /\ t[1] = a /\ t[2] = b
  OBVIOUS
<1> HIDE DEF s, t
<1>3. \A i \in 1 .. Len(s) : s[i] = t[i]
  <2>1. \A i \in 1 .. 2 : i = 1 \/ i = 2
    OBVIOUS
  <2> QED BY <1>1, <1>2, <2>1
<1>4. s = t
  BY <1>1, <1>2, <1>3, SeqEqual
<1> QED BY <1>4 DEF s, t

LEMMA DatadogSound ==
  ASSUME NEW b \in Seq(Event), b # <<>>, Len(b) <= Len(Stream)
  PROVE  Sound("datadog", b, DatadogPlan(b))
<1> DEFINE spans == SpansOf(b)
           series == SeriesOf(b)
           T == Post("traces", spans)
           M == Post("metrics", series)
           traces == IF spans = <<>> THEN <<>> ELSE <<T>>
           metrics == IF series = <<>> \/ ~ApiKey THEN <<>> ELSE <<M>>
           p == DatadogPlan(b)
<1>1. p = IF traces \o metrics = <<>> THEN <<>> ELSE <<traces \o metrics>>
  BY DEF DatadogPlan
<1>2. \A i \in DOMAIN b : b[i] \in Traced => \E h \in DOMAIN spans : spans[h] = b[i]
  <2>1. \A i \in {i \in DOMAIN b : b[i] \in Traced} :
          \E k \in DOMAIN Filter(b, Traced) : Filter(b, Traced)[k] = b[i]
    BY FilterFacts
  <2> QED BY <2>1 DEF SpansOf
<1>3. \A i \in DOMAIN b : b[i] \in Metered => \E h \in DOMAIN series : series[h] = b[i]
  <2>1. \A i \in {i \in DOMAIN b : b[i] \in Metered} :
          \E k \in DOMAIN Filter(b, Metered) : Filter(b, Metered)[k] = b[i]
    BY FilterFacts
  <2> QED BY <2>1 DEF SeriesOf
<1>4. T.to = "traces" /\ T.events = spans /\ M.to = "metrics" /\ M.events = series
  BY DEF Post
<1>5. Len(Stream) \in Nat /\ Len(Stream) >= 1
  <2>1. Len(b) >= 1 /\ Len(b) \in Nat
    OBVIOUS
  <2> QED BY <2>1, DeliveryAssumption
<1>6. DOMAIN <<>> = {}
  OBVIOUS
<1> HIDE DEF T, M, spans, series
<1>7. \/ traces \o metrics = <<>> /\ spans = <<>> /\ (series = <<>> \/ ~ApiKey)
      \/ traces \o metrics = <<T>> /\ spans # <<>> /\ (series = <<>> \/ ~ApiKey)
      \/ traces \o metrics = <<M>> /\ spans = <<>> /\ series # <<>> /\ ApiKey
      \/ traces \o metrics = <<T, M>> /\ spans # <<>> /\ series # <<>> /\ ApiKey
  <2>1. /\ <<>> \o <<>> = <<>> /\ <<T>> \o <<>> = <<T>>
        /\ <<>> \o <<M>> = <<M>> /\ <<T>> \o <<M>> = <<T, M>>
    <3>1. <<>> \in Seq({T, M}) /\ <<T>> \in Seq({T, M}) /\ <<M>> \in Seq({T, M})
      OBVIOUS
    <3>2. \A s \in Seq({T, M}) : s \o <<>> = s /\ <<>> \o s = s
      BY ConcatEmptySeq
    <3>3. <<T>> \o <<M>> = <<T, M>>
      BY Pair
    <3> QED BY <3>1, <3>2, <3>3, Zenon
  <2>2. /\ spans = <<>> => traces = <<>>
        /\ spans # <<>> => traces = <<T>>
        /\ series = <<>> \/ ~ApiKey => metrics = <<>>
        /\ series # <<>> /\ ApiKey => metrics = <<M>>
    BY Zenon
  <2> HIDE DEF traces, metrics
  <2>3. CASE spans = <<>> /\ (series = <<>> \/ ~ApiKey)
    BY <2>1, <2>2, <2>3, Zenon
  <2>4. CASE spans # <<>> /\ (series = <<>> \/ ~ApiKey)
    BY <2>1, <2>2, <2>4, Zenon
  <2>5. CASE spans = <<>> /\ series # <<>> /\ ApiKey
    BY <2>1, <2>2, <2>5, Zenon
  <2>6. CASE spans # <<>> /\ series # <<>> /\ ApiKey
    BY <2>1, <2>2, <2>6, Zenon
  <2> QED BY <2>3, <2>4, <2>5, <2>6
<1> DEFINE all == traces \o metrics
<1>8. all = <<>> \/ all = <<T>> \/ all = <<M>> \/ all = <<T, M>>
  BY <1>7, Zenon
<1>9. /\ spans # <<>> => \E j \in DOMAIN all : all[j] = T
      /\ series # <<>> /\ ApiKey => \E j \in DOMAIN all : all[j] = M
  <2>1. /\ 1 \in DOMAIN <<T>> /\ <<T>>[1] = T /\ 1 \in DOMAIN <<M>> /\ <<M>>[1] = M
        /\ 1 \in DOMAIN <<T, M>> /\ <<T, M>>[1] = T
        /\ 2 \in DOMAIN <<T, M>> /\ <<T, M>>[2] = M
    OBVIOUS
  <2> QED BY <1>7, <2>1, Zenon
<1>10. all # <<>> => \E m \in 1 .. 2 : DOMAIN all = 1 .. m
  <2>1. DOMAIN <<T>> = 1 .. 1 /\ DOMAIN <<M>> = 1 .. 1 /\ DOMAIN <<T, M>> = 1 .. 2
    OBVIOUS
  <2>2. 1 \in 1 .. 2 /\ 2 \in 1 .. 2
    OBVIOUS
  <2> QED BY <1>8, <2>1, <2>2, Zenon
<1>11. p = IF all = <<>> THEN <<>> ELSE <<all>>
  BY <1>1
<1> HIDE DEF all, p, traces, metrics
<1>12. CASE all = <<>>
  <2>1. p = <<>> /\ spans = <<>> /\ (series = <<>> \/ ~ApiKey)
    BY <1>6, <1>9, <1>11, <1>12
  <2>2. \A i \in DOMAIN b : Goes("datadog", b[i]) = {}
    BY <1>2, <1>3, <1>6, <2>1 DEF Goes
  <2>3. DOMAIN p = 1 .. 0 /\ 0 \in 0 .. Len(Stream)
    BY <1>5, <2>1
  <2> QED BY <2>2, <2>3 DEF Sound, p
<1>13. CASE all # <<>>
  <2>1. DOMAIN p = 1 .. 1 /\ p[1] = all /\ 1 \in 0 .. Len(Stream)
    BY <1>5, <1>11, <1>13
  <2>2. ASSUME NEW j \in DOMAIN all, NEW h \in DOMAIN all[j].events
        PROVE  Brings(p, all[j].events[h], all[j].to)
    <3>1. 1 \in DOMAIN p
      BY <2>1
    <3> QED BY <2>1, <3>1 DEF Brings
  <2>3. ASSUME NEW i \in DOMAIN b, NEW d \in Goes("datadog", b[i]) PROVE Brings(p, b[i], d)
    <3>1. \/ d = "traces" /\ b[i] \in Traced
          \/ d = "metrics" /\ b[i] \in Metered /\ ApiKey
      BY DEF Goes
    <3>2. CASE d = "traces" /\ b[i] \in Traced
      <4>1. PICK h \in DOMAIN spans : spans[h] = b[i]
        BY <1>2, <3>2
      <4>2. spans # <<>>
        BY <1>6, <4>1
      <4>3. PICK j \in DOMAIN all : all[j] = T
        BY <1>9, <4>2
      <4> QED BY <1>4, <2>2, <3>2, <4>1, <4>3
    <3>3. CASE d = "metrics" /\ b[i] \in Metered /\ ApiKey
      <4>1. PICK h \in DOMAIN series : series[h] = b[i]
        BY <1>3, <3>3
      <4>2. series # <<>>
        BY <1>6, <4>1
      <4>3. PICK j \in DOMAIN all : all[j] = M
        BY <1>9, <3>3, <4>2
      <4> QED BY <1>4, <2>2, <3>3, <4>1, <4>3
    <3> QED BY <3>1, <3>2, <3>3
  <2>4. \A k \in DOMAIN p : \E m \in 1 .. 2 : DOMAIN p[k] = 1 .. m
    <3>1. \A k \in DOMAIN p : p[k] = all
      BY <2>1
    <3> QED BY <1>10, <1>13, <3>1
  <2> QED BY <2>1, <2>3, <2>4 DEF Sound, p
<1> QED BY <1>12, <1>13

LEMMA PlanSound ==
  ASSUME exporter \in Exporter, NEW b \in Seq(Event), b # <<>>, Len(b) <= Len(Stream)
  PROVE  Sound(exporter, b, Plan(b))
<1>1. /\ exporter = "webhook" => Plan(b) = WebhookPlan(b)
      /\ exporter = "otlp" => Plan(b) = OtlpPlan(b)
      /\ exporter = "datadog" => Plan(b) = DatadogPlan(b)
      /\ exporter = "loki" => Plan(b) = LokiPlan(b)
  BY Zenon DEF Plan
<1>2. 1 \in 0 .. Len(Stream) /\ 1 \in 1 .. 2
  <2>1. Len(b) >= 1 /\ Len(b) \in Nat
    OBVIOUS
  <2> QED BY <2>1, DeliveryAssumption
<1>3. ASSUME NEW to \in {"webhook", "loki"}, exporter = to,
             Plan(b) = << <<Post(to, b)>> >>
      PROVE  Sound(exporter, b, Plan(b))
  <2> DEFINE p == Plan(b)
  <2>1. /\ DOMAIN p = 1 .. 1 /\ DOMAIN p[1] = 1 .. 1
        /\ \A h \in DOMAIN b : Brings(p, b[h], to)
    BY <1>3, SinglePost
  <2>2. \A e : Goes(to, e) = {to}
    BY DEF Goes
  <2> HIDE DEF p
  <2>3. \A k \in DOMAIN p : \E m \in 1 .. 2 : DOMAIN p[k] = 1 .. m
    BY <1>2, <2>1
  <2>4. Sound(exporter, b, p)
    BY <1>2, <1>3, <2>1, <2>2, <2>3 DEF Sound
  <2> QED BY <2>4 DEF p
<1>4. CASE exporter = "webhook"
  BY <1>1, <1>3, <1>4 DEF WebhookPlan
<1>5. CASE exporter = "otlp"
  BY <1>1, <1>5, OtlpSound
<1>6. CASE exporter = "datadog"
  BY <1>1, <1>6, DatadogSound
<1>7. CASE exporter = "loki"
  BY <1>1, <1>3, <1>7 DEF LokiPlan
<1> QED BY <1>4, <1>5, <1>6, <1>7 DEF Exporter

-----------------------------------------------------------------------------
(***************************************************************************)
(* The second invariant, for what is delivered: the plan of a call brings  *)
(* its batch where it has to go, the requests of the stage a call waits    *)
(* for are all with the executor, and a call that has returned has every   *)
(* request of its plan received and acknowledged.                          *)
(***************************************************************************)
Acknowledged(n, k, i) ==
  \E r \in received : r.call = n /\ r.stage = k /\ r.part = i /\ thread[r] = "ok"

RequestOf(n, k, i, a) == [call |-> n, stage |-> k, part |-> i, attempt |-> a]

Planned ==
  \A n \in Call :
    /\ batch[n] \in Seq(Event)
    /\ at[n] = "idle" => plan[n] = <<>>
    /\ at[n] # "idle" => Sound(exporter, batch[n], plan[n])

Asked ==
  /\ \A r \in DOMAIN thread :
       r.stage \in DOMAIN plan[r.call] /\ r.part \in DOMAIN plan[r.call][r.stage]
  /\ \A n \in Call : attempt[n] <= MaxRetries
  /\ \A n \in Call : at[n] = "waiting" =>
       \A i \in DOMAIN plan[n][stage[n]] :
         RequestOf(n, stage[n], i, attempt[n]) \in DOMAIN thread

Heard ==
  \A n \in Call : at[n] = "returned" =>
    \A k \in DOMAIN plan[n] : \A i \in DOMAIN plan[n][k] : Acknowledged(n, k, i)

Outcome == {"queued", "running", "lost", "dropped"} \cup Answer

Pool ==
  /\ batch \in [Call -> Seq(Event)]
  /\ queue \in Seq(Request)
  /\ \A r \in DOMAIN thread : thread[r] \in Outcome
  /\ IsFiniteSet(Running) /\ Cardinality(Running) <= Workers

Sent == IInv /\ Planned /\ Asked /\ Heard /\ Pool

\* A step either hands the requests of one stage to the executor, or makes none.
Submits(n) ==
  /\ Submit(n, stage'[n], attempt'[n], plan'[n][stage'[n]])
  /\ stage'[n] \in DOMAIN plan'[n] /\ at'[n] = "waiting"
  /\ \A r \in DOMAIN thread :
       ~(r.call = n /\ r.stage = stage'[n] /\ r.attempt = attempt'[n])
  /\ \A m \in Call : m # n => /\ at'[m] = at[m] /\ stage'[m] = stage[m]
                              /\ plan'[m] = plan[m]
  /\ plan'[n] = plan[n] \/ at[n] = "idle"
  /\ UNCHANGED <<exporter, attempt, received>>

Quiet ==
  /\ DOMAIN thread' = DOMAIN thread
  /\ \A r \in DOMAIN thread : thread[r] = "ok" => thread'[r] = "ok"
  /\ received \subseteq received'
  /\ \A m \in Call :
       /\ at'[m] = "waiting" => /\ at[m] = "waiting" /\ stage'[m] = stage[m]
                                /\ attempt'[m] = attempt[m] /\ plan'[m] = plan[m]
       /\ plan'[m] = plan[m] \/ at[m] = "idle"
       /\ \/ attempt'[m] = attempt[m]
          \/ attempt[m] < MaxRetries /\ attempt'[m] = attempt[m] + 1

LEMMA BeginKind ==
  ASSUME IInv, NEW n \in Call, NEW predicate, Begin(n, predicate)
  PROVE  Submits(n) \/ Quiet
<1> DEFINE stages == Plan(Filter(Stream, predicate))
<1>1. /\ at[n] = "idle" /\ plan' = [plan EXCEPT ![n] = stages]
      /\ IF 1 \in DOMAIN stages
         THEN Goto(n, "waiting") /\ Submit(n, 1, 0, stages[1])
         ELSE Goto(n, "returned") /\ UNCHANGED executor
      /\ UNCHANGED <<exporter, stage, attempt, received>>
  BY Zenon DEF Begin, network
<1> HIDE DEF stages
<1>2. /\ Shape /\ stage[n] = 1 /\ attempt[n] = 0 /\ \A r \in DOMAIN thread : r.call # n
  BY <1>1 DEF IInv, PlanShape, RequestShape
<1>3. /\ plan'[n] = stages /\ stage'[n] = 1 /\ attempt'[n] = 0
      /\ \A m \in Call : m # n => plan'[m] = plan[m]
  BY <1>1, <1>2 DEF Shape
<1>4. CASE 1 \in DOMAIN stages
  <2>1. Submit(n, 1, 0, stages[1]) /\ at' = [at EXCEPT ![n] = "waiting"]
    BY <1>1, <1>4 DEF Goto
  <2>2. at'[n] = "waiting" /\ \A m \in Call : m # n => at'[m] = at[m]
    BY <1>2, <2>1 DEF Shape
  <2> QED BY <1>1, <1>2, <1>3, <1>4, <2>1, <2>2 DEF Submits
<1>5. CASE 1 \notin DOMAIN stages
  <2>1. thread' = thread /\ at' = [at EXCEPT ![n] = "returned"]
    BY <1>1, <1>5 DEF Goto, executor
  <2>2. at'[n] = "returned" /\ \A m \in Call : m # n => at'[m] = at[m]
    BY <1>2, <2>1 DEF Shape
  <2> QED BY <1>1, <1>3, <2>1, <2>2 DEF Quiet
<1> QED BY <1>4, <1>5

LEMMA WakeKind ==
  ASSUME IInv, NEW n \in Call, Wake(n) PROVE Submits(n)
<1>1. /\ at[n] = "sleeping" /\ at' = [at EXCEPT ![n] = "waiting"]
      /\ Submit(n, stage[n], attempt[n], plan[n][stage[n]])
      /\ UNCHANGED <<exporter, plan, stage, attempt, received>>
  BY DEF Wake, Goto, payload, network
<1>2. /\ Shape /\ stage[n] \in DOMAIN plan[n]
      /\ \A r \in DOMAIN thread : r.call = n => r.attempt < attempt[n]
      /\ \A r \in DOMAIN thread : r.attempt \in Nat
  BY <1>1 DEF IInv, PlanShape, RequestShape
<1>3. at'[n] = "waiting" /\ \A m \in Call : m # n => at'[m] = at[m]
  BY <1>1, <1>2 DEF Shape
<1>4. \A r \in DOMAIN thread : r.call = n => r.attempt # attempt[n]
  BY <1>2 DEF Shape
<1> QED BY <1>1, <1>2, <1>3, <1>4 DEF Submits

LEMMA AdvanceKind ==
  ASSUME IInv, NEW n \in Call, Advance(n) PROVE Submits(n)
<1> DEFINE k == stage[n] + 1
<1>1. /\ at[n] = "waiting" /\ k \in DOMAIN plan[n] /\ stage' = [stage EXCEPT ![n] = k]
      /\ Submit(n, k, 0, plan[n][k])
      /\ UNCHANGED <<exporter, plan, at, attempt, received>>
  BY DEF Advance, More, payload, network
<1>2. Shape /\ PlanShape /\ \A r \in DOMAIN thread : r.stage \in Nat /\ r.stage <= stage[r.call]
  BY DEF IInv, RequestShape
<1>3. k \in Nat /\ k # 1 /\ stage[n] \in Nat /\ stage[n] < k
  BY <1>2 DEF Shape
<1>4. attempt[n] = 0
  BY <1>1, <1>2, <1>3 DEF PlanShape
<1>5. \A r \in DOMAIN thread : r.call = n => r.stage # k
  BY <1>2, <1>3
<1> HIDE DEF k
<1>6. stage'[n] = k /\ \A m \in Call : m # n => stage'[m] = stage[m]
  BY <1>1, <1>2 DEF Shape
<1> QED BY <1>1, <1>4, <1>5, <1>6 DEF Submits

LEMMA BackoffKind ==
  ASSUME IInv, NEW n \in Call, Backoff(n) PROVE Quiet
<1>1. /\ attempt[n] < MaxRetries
      /\ at' = [at EXCEPT ![n] = "sleeping"]
      /\ attempt' = [attempt EXCEPT ![n] = @ + 1]
      /\ UNCHANGED <<plan, stage, thread, received>>
  BY DEF Backoff, Retry, Goto, payload, executor, network
<1>2. Shape
  BY DEF IInv
<1>3. /\ at'[n] = "sleeping" /\ attempt'[n] = attempt[n] + 1
      /\ \A m \in Call : m # n => at'[m] = at[m] /\ attempt'[m] = attempt[m]
  BY <1>1, <1>2 DEF Shape
<1> QED BY <1>1, <1>3 DEF Quiet

LEMMA EndKind ==
  ASSUME IInv, NEW n \in Call, Return(n) \/ Raise(n) \/ Escape(n) \/ Cancel(n) PROVE Quiet
<1>1. Shape
  BY DEF IInv
<1>2. PICK outcome \in Ended : at' = [at EXCEPT ![n] = outcome]
  BY StatusFacts DEF Return, Raise, Escape, Cancel, End, Goto
<1>3. UNCHANGED <<plan, stage, attempt, received>>
  BY DEF Return, Raise, Escape, Cancel, End, payload, network
<1>4. DOMAIN thread' = DOMAIN thread /\ \A r \in DOMAIN thread : thread[r] = "ok" => thread'[r] = "ok"
  BY DEF Return, Raise, Escape, Cancel, End, executor
<1>5. at'[n] # "waiting" /\ \A m \in Call : m # n => at'[m] = at[m]
  BY <1>1, <1>2, StatusFacts DEF Shape
<1> QED BY <1>3, <1>4, <1>5 DEF Quiet

LEMMA OutsideKind ==
  ASSUME IInv, Thread \/ (\E r \in DOMAIN thread : Receive(r)) \/ UNCHANGED vars PROVE Quiet
<1>1. Shape
  BY DEF IInv
<1>2. UNCHANGED <<plan, at, stage, attempt>> /\ received \subseteq received'
  BY DEF Thread, Start, Unreachable, Lose, Hear, Settle, Receive, loop, payload, network, vars
<1>3. DOMAIN thread' = DOMAIN thread /\ \A r \in DOMAIN thread : thread[r] = "ok" => thread'[r] = "ok"
  <2>1. CASE Start
    BY <1>1, <2>1 DEF Start, Shape
  <2>2. ASSUME NEW r \in Running, NEW result, Settle(r, result) PROVE <1>3
    <3>1. thread' = [thread EXCEPT ![r] = result] /\ thread[r] = "running"
      BY <2>2 DEF Settle, Running
    <3> QED BY <1>1, <3>1 DEF Shape
  <2>3. CASE \E r \in DOMAIN thread : Receive(r)
    BY <2>3 DEF Receive, executor
  <2>4. CASE UNCHANGED vars
    BY <2>4 DEF vars, executor
  <2> QED BY <2>1, <2>2, <2>3, <2>4 DEF Thread, Unreachable, Lose, Hear
<1> QED BY <1>2, <1>3 DEF Quiet

LEMMA Kinds ==
  ASSUME IInv, [Next]_vars PROVE Quiet \/ \E n \in Call : Submits(n)
BY BeginKind, WakeKind, AdvanceKind, BackoffKind, EndKind, OutsideKind DEF Next, Loop

\* What was acknowledged stays so.
LEMMA AcknowledgedStays ==
  ASSUME IInv, [Next]_vars, NEW n, NEW k, NEW i, Acknowledged(n, k, i)
  PROVE  Acknowledged(n, k, i)'
<1>1. PICK r \in received : r.call = n /\ r.stage = k /\ r.part = i /\ thread[r] = "ok"
  BY DEF Acknowledged
<1>2. r \in DOMAIN thread
  BY DEF IInv, Shape
<1>3. r \in received' /\ thread'[r] = "ok"
  <2>1. CASE Quiet
    BY <1>1, <1>2, <2>1 DEF Quiet
  <2>2. ASSUME NEW m \in Call, Submits(m) PROVE r \in received' /\ thread'[r] = "ok"
    <3>1. /\ Submit(m, stage'[m], attempt'[m], plan'[m][stage'[m]])
          /\ ~(r.call = m /\ r.stage = stage'[m] /\ r.attempt = attempt'[m])
          /\ received' = received
      BY <1>2, <2>2 DEF Submits
    <3> QED BY <1>1, <1>2, <3>1, Submitted
  <2> QED BY <2>1, <2>2, Kinds
<1> QED BY <1>1, <1>3 DEF Acknowledged

\* A step that does not begin a call leaves batches and plans alone.
LEMMA PayloadKinds ==
  ASSUME IInv, [Next]_vars
  PROVE  \/ \E n \in Call, predicate \in Predicate : Begin(n, predicate)
         \/ /\ UNCHANGED payload
            /\ \A n \in Call : /\ at'[n] = "idle" <=> at[n] = "idle"
                               /\ at'[n] = "returned" => at[n] = "returned" \/ Return(n)
<1>1. Shape
  BY DEF IInv
<1>2. ASSUME NEW n \in Call, Loop(n) \/ Cancel(n)
      PROVE  /\ UNCHANGED payload
             /\ \A m \in Call : /\ at'[m] = "idle" <=> at[m] = "idle"
                                /\ at'[m] = "returned" => at[m] = "returned" \/ Return(m)
  <2>1. at[n] \in {"waiting", "sleeping"} /\ UNCHANGED payload
    BY <1>2 DEF Loop, Cancel, Advance, Return, Backoff, Retry, Wake, Raise, Escape, End
  <2> DEFINE Moves(place) == at' = [at EXCEPT ![n] = place]
  <2>2. \/ Return(n) /\ Moves("returned")
        \/ Moves("waiting") \/ Moves("sleeping")
        \/ Moves("raised") \/ Moves("escaped") \/ Moves("cancelled")
    <3>1. Advance(n) => Moves("waiting")
      BY <1>1 DEF Advance, Shape
    <3>2. Return(n) => Moves("returned")
      BY DEF Return, End, Goto
    <3>3. Backoff(n) => Moves("sleeping")
      BY DEF Backoff, Retry, Goto
    <3>4. Wake(n) => Moves("waiting")
      BY DEF Wake, Goto
    <3>5. (Raise(n) => Moves("raised")) /\ (Escape(n) => Moves("escaped"))
      BY DEF Raise, Escape, End, Goto
    <3>6. Cancel(n) => Moves("cancelled")
      BY DEF Cancel, Goto
    <3> HIDE DEF Moves
    <3> QED BY <1>2, <3>1, <3>2, <3>3, <3>4, <3>5, <3>6 DEF Loop
  <2>3. ASSUME NEW place \in {"waiting", "sleeping", "returned", "raised", "escaped", "cancelled"},
               Moves(place), place = "returned" => Return(n)
        PROVE  \A m \in Call : /\ at'[m] = "idle" <=> at[m] = "idle"
                              /\ at'[m] = "returned" => at[m] = "returned" \/ Return(m)
    <3>1. at'[n] = place /\ \A m \in Call : m # n => at'[m] = at[m]
      BY <1>1, <2>3 DEF Shape
    <3> QED BY <2>1, <2>3, <3>1
  <2>4. CASE Return(n) /\ Moves("returned")
    BY <2>1, <2>3, <2>4
  <2>5. CASE Moves("waiting")
    BY <2>1, <2>3, <2>5
  <2>6. CASE Moves("sleeping")
    BY <2>1, <2>3, <2>6
  <2>7. CASE Moves("raised")
    BY <2>1, <2>3, <2>7
  <2>8. CASE Moves("escaped")
    BY <2>1, <2>3, <2>8
  <2>9. CASE Moves("cancelled")
    BY <2>1, <2>3, <2>9
  <2> QED BY <2>2, <2>4, <2>5, <2>6, <2>7, <2>8, <2>9
<1>3. ASSUME Thread \/ (\E r \in DOMAIN thread : Receive(r)) \/ UNCHANGED vars
      PROVE  UNCHANGED payload /\ UNCHANGED at
  BY <1>3 DEF Thread, Start, Unreachable, Lose, Hear, Settle, Receive, loop, vars
<1>4. CASE \E n \in Call : Loop(n) \/ Cancel(n)
  BY <1>2, <1>4
<1>5. CASE Thread \/ (\E r \in DOMAIN thread : Receive(r)) \/ UNCHANGED vars
  BY <1>3, <1>5
<1> QED BY <1>4, <1>5 DEF Next

LEMMA BatchOfBegin ==
  ASSUME IInv, NEW n \in Call, NEW predicate, Begin(n, predicate)
  PROVE  LET events == Filter(Stream, predicate)
         IN  /\ events \in Seq(Event) /\ Len(events) <= Len(Stream) /\ events # <<>>
             /\ batch' = [batch EXCEPT ![n] = events] /\ plan'[n] = Plan(events)
             /\ Sound(exporter, events, Plan(events))
             /\ at'[n] # "idle" /\ at[n] = "idle"
             /\ at'[n] = "returned" => DOMAIN plan'[n] = {}
             /\ \A m \in Call : m # n => at'[m] = at[m] /\ plan'[m] = plan[m]
             /\ exporter' = exporter
<1> DEFINE events == Filter(Stream, predicate)
           stages == Plan(events)
<1>1. /\ at[n] = "idle" /\ events # <<>>
      /\ batch' = [batch EXCEPT ![n] = events] /\ plan' = [plan EXCEPT ![n] = stages]
      /\ IF 1 \in DOMAIN stages THEN Goto(n, "waiting") ELSE Goto(n, "returned")
      /\ exporter' = exporter
  BY Zenon DEF Begin
<1>2. events \in Seq(Event) /\ Len(events) <= Len(Stream)
  <2>1. Stream \in Seq(Event)
    BY DeliveryAssumption
  <2> QED BY <2>1, FilterFacts
<1>3. Shape
  BY DEF IInv
<1> HIDE DEF events
<1>4. Sound(exporter, events, stages)
  BY <1>1, <1>2, <1>3, PlanSound DEF Shape
<1> HIDE DEF stages
<1>5. 1 \notin DOMAIN stages => DOMAIN stages = {}
  BY <1>4, DeliveryAssumption DEF Sound
<1>6. /\ plan'[n] = stages /\ \A m \in Call : m # n => plan'[m] = plan[m]
      /\ \A m \in Call : m # n => at'[m] = at[m]
      /\ at'[n] \in {"waiting", "returned"}
      /\ at'[n] = "returned" => 1 \notin DOMAIN stages
  BY <1>1, <1>3 DEF Shape, Goto
<1> QED BY <1>1, <1>2, <1>4, <1>5, <1>6 DEF events, stages

LEMMA PlannedInv ==
  ASSUME Sent, [Next]_vars PROVE Planned' /\ batch' \in [Call -> Seq(Event)]
<1>1. IInv /\ Planned /\ batch \in [Call -> Seq(Event)]
  BY DEF Sent, Pool
<1>2. ASSUME NEW n \in Call, NEW predicate, Begin(n, predicate)
      PROVE  Planned' /\ batch' \in [Call -> Seq(Event)]
  <2>1. PICK events \in Seq(Event) :
          /\ batch' = [batch EXCEPT ![n] = events]
          /\ Sound(exporter, events, plan'[n]) /\ at'[n] # "idle" /\ exporter' = exporter
          /\ \A m \in Call : m # n => at'[m] = at[m] /\ plan'[m] = plan[m]
    BY <1>1, <1>2, BatchOfBegin
  <2>2. batch' \in [Call -> Seq(Event)] /\ batch'[n] = events
        /\ \A m \in Call : m # n => batch'[m] = batch[m]
    BY <1>1, <2>1
  <2> QED BY <1>1, <2>1, <2>2 DEF Planned
<1>3. CASE /\ UNCHANGED payload
           /\ \A n \in Call : at'[n] = "idle" <=> at[n] = "idle"
  BY <1>1, <1>3 DEF Planned, payload
<1> QED BY <1>1, <1>2, <1>3, PayloadKinds

LEMMA AskedInv ==
  ASSUME Sent, [Next]_vars PROVE Asked'
<1>1. /\ IInv /\ Asked /\ Shape
      /\ \A r \in DOMAIN thread : r.call \in Call /\ at[r.call] # "idle"
  BY DEF Sent, IInv, RequestShape
<1>2. CASE Quiet
  <2>1. \A r \in DOMAIN thread : plan'[r.call] = plan[r.call]
    BY <1>1, <1>2 DEF Quiet
  <2>2. \A n \in Call : attempt'[n] <= MaxRetries
    <3>1. \A n \in Call : attempt[n] <= MaxRetries /\ attempt[n] \in Nat
      BY <1>1 DEF Asked, Shape
    <3> QED BY <1>2, <3>1, DeliveryAssumption DEF Quiet
  <2>3. ASSUME NEW n \in Call, at'[n] = "waiting", NEW i \in DOMAIN plan'[n][stage'[n]]
        PROVE  RequestOf(n, stage'[n], i, attempt'[n]) \in DOMAIN thread'
    BY <1>1, <1>2, <2>3 DEF Quiet, Asked
  <2> QED BY <1>1, <1>2, <2>1, <2>2, <2>3 DEF Asked, Quiet
<1>3. ASSUME NEW n \in Call, Submits(n) PROVE Asked'
  <2> DEFINE k == stage'[n]
             a == attempt'[n]
             posts == plan'[n][k]
  <2>1. /\ Submit(n, k, a, posts) /\ k \in DOMAIN plan'[n]
        /\ \A m \in Call : m # n => /\ at'[m] = at[m] /\ stage'[m] = stage[m]
                                    /\ plan'[m] = plan[m]
        /\ plan'[n] = plan[n] \/ at[n] = "idle"
        /\ attempt' = attempt
    BY <1>3 DEF Submits
  <2>2. /\ \A r \in DOMAIN thread' :
             \/ r \in DOMAIN thread
             \/ \E i \in DOMAIN posts : r = [call |-> n, stage |-> k, part |-> i, attempt |-> a]
        /\ \A r \in DOMAIN thread : r \in DOMAIN thread'
        /\ \A i \in DOMAIN posts :
             [call |-> n, stage |-> k, part |-> i, attempt |-> a] \in DOMAIN thread'
    BY <2>1, Submitted
  <2>3. ASSUME NEW r \in DOMAIN thread'
        PROVE  r.stage \in DOMAIN plan'[r.call] /\ r.part \in DOMAIN plan'[r.call][r.stage]
    <3>1. CASE r \in DOMAIN thread
      <4>1. plan'[r.call] = plan[r.call]
        BY <1>1, <2>1, <3>1
      <4> QED BY <1>1, <3>1, <4>1 DEF Asked
    <3>2. ASSUME NEW i \in DOMAIN posts,
                 r = [call |-> n, stage |-> k, part |-> i, attempt |-> a]
          PROVE  r.stage \in DOMAIN plan'[r.call] /\ r.part \in DOMAIN plan'[r.call][r.stage]
      <4>1. r.call = n /\ r.stage = k /\ r.part = i
        BY <3>2
      <4> QED BY <2>1, <4>1
    <3> QED BY <2>2, <3>1, <3>2
  <2>4. ASSUME NEW m \in Call, at'[m] = "waiting", NEW i \in DOMAIN plan'[m][stage'[m]]
        PROVE  RequestOf(m, stage'[m], i, attempt'[m]) \in DOMAIN thread'
    <3>1. CASE m = n
      BY <2>2, <2>4, <3>1 DEF RequestOf
    <3>2. CASE m # n
      BY <1>1, <2>1, <2>2, <2>4, <3>2 DEF Asked
    <3> QED BY <3>1, <3>2
  <2>5. \A m \in Call : attempt'[m] <= MaxRetries
    BY <1>1, <2>1 DEF Asked
  <2> QED BY <2>3, <2>4, <2>5 DEF Asked
<1> QED BY <1>1, <1>2, <1>3, Kinds

\* When a call is about to return, all it was to send is acknowledged.
LEMMA ReturnHasAll ==
  ASSUME Sent, NEW n \in Call, Return(n),
         NEW k \in DOMAIN plan[n], NEW i \in DOMAIN plan[n][k]
  PROVE  Acknowledged(n, k, i)
<1>1. /\ at[n] = "waiting" /\ \A r \in Current(n) : thread[r] = "ok"
      /\ stage[n] + 1 \notin DOMAIN plan[n]
  BY DEF Return, More
<1>2. IInv /\ Planned /\ Asked /\ Shape /\ PlanShape /\ StagesBehind /\ RequestShape
  BY DEF Sent, IInv
<1>3. PICK m \in 0 .. Len(Stream) : DOMAIN plan[n] = 1 .. m
  BY <1>1, <1>2 DEF Planned, Sound
<1>4. /\ stage[n] \in 1 .. m /\ k \in 1 .. m /\ k \in Nat /\ stage[n] \in Nat /\ 0 < k
      /\ k <= stage[n]
  <2>1. stage[n] \in Nat \ {0} /\ stage[n] \in DOMAIN plan[n]
    BY <1>1, <1>2 DEF Shape, PlanShape
  <2>2. m \in Nat
    BY DeliveryAssumption
  <2> QED BY <1>1, <1>3, <2>1, <2>2
<1>5. CASE k = stage[n]
  <2> DEFINE r == RequestOf(n, k, i, attempt[n])
  <2>1. r \in DOMAIN thread
    BY <1>1, <1>2, <1>5 DEF Asked
  <2>2. r.call = n /\ r.stage = k /\ r.part = i /\ r.attempt = attempt[n]
    BY DEF RequestOf
  <2> HIDE DEF r
  <2>3. r \in Current(n)
    BY <1>5, <2>1, <2>2 DEF Current
  <2>4. thread[r] = "ok" /\ r \in received
    BY <1>1, <1>2, <2>1, <2>3 DEF StagesBehind
  <2> QED BY <2>2, <2>4 DEF Acknowledged
<1>6. CASE k < stage[n]
  <2>1. exporter = "otlp"
    BY <1>2, <1>4, <1>6 DEF PlanShape
  <2>2. i = 1
    BY <1>2, <2>1 DEF PlanShape
  <2>3. PICK q \in received : q.call = n /\ q.stage = k /\ thread[q] = "ok"
    BY <1>2, <1>4, <1>6 DEF StagesBehind
  <2>4. q.part = 1
    BY <1>2, <2>1, <2>3 DEF Shape, RequestShape
  <2> QED BY <2>2, <2>3, <2>4 DEF Acknowledged
<1> QED BY <1>4, <1>5, <1>6

LEMMA HeardInv ==
  ASSUME Sent, [Next]_vars PROVE Heard'
<1>1. IInv /\ Heard
  BY DEF Sent
<1>2. ASSUME NEW n \in Call, at'[n] = "returned", NEW k \in DOMAIN plan'[n],
             NEW i \in DOMAIN plan'[n][k]
      PROVE  \/ DOMAIN plan'[n] = {}
             \/ /\ plan'[n] = plan[n]
                /\ \/ at[n] = "returned"
                   \/ Return(n)
  <2>1. ASSUME NEW m \in Call, NEW predicate, Begin(m, predicate)
        PROVE  \/ DOMAIN plan'[n] = {}
               \/ plan'[n] = plan[n] /\ at[n] = "returned"
    <3>1. /\ at'[m] = "returned" => DOMAIN plan'[m] = {}
          /\ \A c \in Call : c # m => at'[c] = at[c] /\ plan'[c] = plan[c]
      BY <1>1, <2>1, BatchOfBegin
    <3>2. n = m \/ n # m
      OBVIOUS
    <3> QED BY <1>2, <3>1, <3>2
  <2>2. CASE /\ UNCHANGED payload
             /\ \A m \in Call : at'[m] = "returned" => at[m] = "returned" \/ Return(m)
    BY <1>2, <2>2 DEF payload
  <2> QED BY <1>1, <2>1, <2>2, PayloadKinds
<1>3. ASSUME NEW n \in Call, at'[n] = "returned", NEW k \in DOMAIN plan'[n],
             NEW i \in DOMAIN plan'[n][k]
      PROVE  Acknowledged(n, k, i)'
  <2>1. Acknowledged(n, k, i)
    <3>1. CASE at[n] = "returned" /\ plan'[n] = plan[n]
      BY <1>1, <1>3, <3>1 DEF Heard
    <3>2. CASE Return(n) /\ plan'[n] = plan[n]
      BY <1>3, <3>2, ReturnHasAll
    <3> QED BY <1>2, <1>3, <3>1, <3>2
  <2> QED BY <1>1, <2>1, AcknowledgedStays
<1> QED BY <1>3 DEF Heard

\* The requests that exist are of the type that a request has.
TypedRequests == DOMAIN thread \subseteq Request

LEMMA RequestType == IInv /\ Planned /\ Asked => TypedRequests
<1> SUFFICES ASSUME IInv, Planned, Asked, NEW r \in DOMAIN thread PROVE r \in Request
  BY DEF TypedRequests
<1>1. /\ r = [call |-> r.call, stage |-> r.stage, part |-> r.part, attempt |-> r.attempt]
      /\ r.call \in Call /\ r.attempt \in Nat /\ r.attempt <= attempt[r.call]
      /\ at[r.call] # "idle"
  BY DEF IInv, RequestShape
<1>2. Sound(exporter, batch[r.call], plan[r.call])
  BY <1>1 DEF Planned
<1>3. r.stage \in 1 .. Len(Stream)
  BY <1>2, DeliveryAssumption DEF Asked, Sound
<1>4. r.part \in 1 .. 2
  <2>1. r.stage \in DOMAIN plan[r.call] /\ r.part \in DOMAIN plan[r.call][r.stage]
    BY DEF Asked
  <2>2. PICK m \in 1 .. 2 : DOMAIN plan[r.call][r.stage] = 1 .. m
    BY <1>2, <2>1 DEF Sound
  <2> QED BY <2>1, <2>2
<1>5. r.attempt \in 0 .. MaxRetries
  <2>1. attempt[r.call] \in Nat /\ attempt[r.call] <= MaxRetries
    BY <1>1 DEF IInv, Shape, Asked
  <2> QED BY <1>1, <2>1, DeliveryAssumption
<1> QED BY <1>1, <1>3, <1>4, <1>5 DEF Request

\* The step in which the executor takes up a request is the only one that adds
\* to what is running.
LEMMA RunningKinds ==
  ASSUME IInv, [Next]_vars
  PROVE  \/ Running' \subseteq Running
         \/ Cardinality(Running) < Workers /\ \E q : Running' \subseteq Running \cup {q}
<1>1. Shape
  BY DEF IInv
<1>2. ASSUME NEW n \in Call, Submits(n) PROVE Running' \subseteq Running
  <2>1. Submit(n, stage'[n], attempt'[n], plan'[n][stage'[n]])
    BY <1>2 DEF Submits
  <2>2. \A r \in DOMAIN thread' :
          \/ r \in DOMAIN thread /\ thread'[r] = thread[r]
          \/ thread'[r] = "queued"
    BY <2>1, Submitted
  <2> QED BY <2>2 DEF Running
<1>3. CASE Start
  <2>1. /\ Cardinality(Running) < Workers
        /\ thread' = [thread EXCEPT ![Head(queue)] = IF @ = "queued" THEN "running" ELSE @]
    BY <1>3 DEF Start
  <2>2. Running' \subseteq Running \cup {Head(queue)}
    BY <1>1, <2>1 DEF Running, Shape
  <2> QED BY <2>1, <2>2
<1>4. ASSUME NEW r \in Running, NEW result \in {"lost"} \cup Answer, Settle(r, result)
      PROVE  Running' \subseteq Running
  <2>1. thread' = [thread EXCEPT ![r] = result] /\ result # "running"
    BY <1>4 DEF Settle, Answer
  <2> QED BY <1>1, <2>1 DEF Running, Shape
<1>5. CASE Thread
  <2>1. "failed" \in Answer
    BY DEF Answer
  <2> QED BY <1>3, <1>4, <1>5, <2>1 DEF Thread, Unreachable, Lose, Hear
<1>6. ASSUME thread' = thread PROVE Running' \subseteq Running
  BY <1>6 DEF Running
<1>7. ASSUME NEW n \in Call, Cancel(n) PROVE Running' \subseteq Running
  BY <1>1, <1>7 DEF Cancel, Running, Shape
<1>8. ASSUME NEW n \in Call, Return(n) \/ Raise(n) \/ Escape(n) \/ Backoff(n)
      PROVE  thread' = thread
  BY <1>8 DEF Return, Raise, Escape, Backoff, Retry, End, executor
<1>9. ASSUME NEW n \in Call, NEW predicate, Begin(n, predicate)
      PROVE  thread' = thread \/ \E k, a, posts : Submit(n, k, a, posts)
  BY <1>9, Zenon DEF Begin, executor
<1>10. ASSUME NEW n, NEW k, NEW a, NEW posts, Submit(n, k, a, posts)
       PROVE  Running' \subseteq Running
  <2>1. \A r \in DOMAIN thread' :
          \/ r \in DOMAIN thread /\ thread'[r] = thread[r]
          \/ thread'[r] = "queued"
    BY <1>10, Submitted
  <2> QED BY <2>1 DEF Running
<1>11. ASSUME NEW n \in Call, Advance(n) \/ Wake(n) PROVE Running' \subseteq Running
  BY <1>2, <1>11, AdvanceKind, WakeKind
<1>12. CASE (\E r \in DOMAIN thread : Receive(r)) \/ UNCHANGED vars
  BY <1>6, <1>12 DEF Receive, vars, executor
<1>13. ASSUME NEW n \in Call, NEW predicate, Begin(n, predicate) PROVE Running' \subseteq Running
  <2>1. CASE thread' = thread
    BY <1>6, <2>1
  <2>2. ASSUME NEW k, NEW a, NEW posts, Submit(n, k, a, posts) PROVE Running' \subseteq Running
    BY <1>10, <2>2
  <2>3. thread' = thread \/ \E k, a, posts : Submit(n, k, a, posts)
    BY <1>9, <1>13
  <2> QED BY <2>1, <2>2, <2>3
<1>14. ASSUME NEW n \in Call, Return(n) \/ Raise(n) \/ Escape(n) \/ Backoff(n)
       PROVE  Running' \subseteq Running
  BY <1>6, <1>8, <1>14
<1> QED BY <1>5, <1>7, <1>11, <1>12, <1>13, <1>14 DEF Next, Loop

\* What a step does to the queue and to what became of the requests.
LEMMA QueueKinds ==
  ASSUME IInv, [Next]_vars
  PROVE  \/ \E n \in Call : Submits(n)
         \/ /\ queue' = queue \/ (queue # <<>> /\ queue' = Tail(queue))
            /\ DOMAIN thread' = DOMAIN thread
            /\ \A r \in DOMAIN thread : thread'[r] = thread[r] \/ thread'[r] \in Outcome
<1>1. Shape
  BY DEF IInv
<1>2. ASSUME NEW n \in Call, NEW predicate, Begin(n, predicate)
      PROVE  Submits(n) \/ UNCHANGED executor
  <2>1. CASE 1 \in DOMAIN Plan(Filter(Stream, predicate))
    <3>1. at' = [at EXCEPT ![n] = "waiting"] /\ at[n] = "idle"
      BY <1>2, <2>1, Zenon DEF Begin, Goto
    <3>2. at'[n] = "waiting"
      BY <1>1, <3>1 DEF Shape
    <3>3. ~Quiet
      BY <3>1, <3>2 DEF Quiet
    <3> QED BY <1>2, <3>3, BeginKind
  <2>2. CASE 1 \notin DOMAIN Plan(Filter(Stream, predicate))
    BY <1>2, <2>2, Zenon DEF Begin
  <2> QED BY <2>1, <2>2
<1>3. ASSUME NEW n \in Call, Advance(n) \/ Wake(n) PROVE Submits(n)
  BY <1>3, AdvanceKind, WakeKind
<1>4. ASSUME \/ \E n \in Call : Return(n) \/ Raise(n) \/ Escape(n) \/ Backoff(n)
             \/ \E r \in DOMAIN thread : Receive(r)
             \/ UNCHANGED vars
      PROVE  UNCHANGED executor
  BY <1>4 DEF Return, Raise, Escape, Backoff, Retry, End, Receive, vars
<1>5. ASSUME NEW n \in Call, Cancel(n)
      PROVE  /\ queue' = queue /\ DOMAIN thread' = DOMAIN thread
             /\ \A r \in DOMAIN thread : thread'[r] = thread[r] \/ thread'[r] \in Outcome
  BY <1>5 DEF Cancel, Outcome
<1>6. CASE Start
  <2>1. /\ queue # <<>> /\ queue' = Tail(queue)
        /\ thread' = [thread EXCEPT ![Head(queue)] = IF @ = "queued" THEN "running" ELSE @]
    BY <1>6 DEF Start
  <2>2. /\ DOMAIN thread' = DOMAIN thread
        /\ \A r \in DOMAIN thread : thread'[r] = thread[r] \/ thread'[r] = "running"
    BY <1>1, <2>1 DEF Shape
  <2> QED BY <2>1, <2>2 DEF Outcome
<1>7. ASSUME NEW r, NEW result \in Outcome, Settle(r, result)
      PROVE  /\ queue' = queue /\ DOMAIN thread' = DOMAIN thread
             /\ \A q \in DOMAIN thread : thread'[q] = thread[q] \/ thread'[q] \in Outcome
  BY <1>1, <1>7 DEF Settle, Shape
<1>8. CASE Thread
  <2>1. "failed" \in Outcome /\ "lost" \in Outcome /\ Answer \subseteq Outcome
    BY DEF Outcome, Answer
  <2> QED BY <1>6, <1>7, <1>8, <2>1 DEF Thread, Unreachable, Lose, Hear
<1> QED BY <1>2, <1>3, <1>4, <1>5, <1>8 DEF Next, Loop, executor

LEMMA PoolInv ==
  ASSUME Sent, [Next]_vars, IInv' PROVE Pool'
<1>1. IInv /\ Pool
  BY DEF Sent
<1>2. Planned' /\ Asked' /\ batch' \in [Call -> Seq(Event)]
  BY PlannedInv, AskedInv
<1>3. IsFiniteSet(Running') /\ Cardinality(Running') <= Workers
  <2>1. IsFiniteSet(Running) /\ Cardinality(Running) \in Nat /\ Cardinality(Running) <= Workers
    BY <1>1, FS_CardinalityType DEF Pool
  <2>2. CASE Running' \subseteq Running
    <3>1. IsFiniteSet(Running') /\ Cardinality(Running') <= Cardinality(Running)
      BY <2>1, <2>2, FS_Subset
    <3>2. Cardinality(Running') \in Nat
      BY <3>1, FS_CardinalityType
    <3> QED BY <2>1, <3>1, <3>2, DeliveryAssumption
  <2>3. ASSUME Cardinality(Running) < Workers, NEW q, Running' \subseteq Running \cup {q}
        PROVE  IsFiniteSet(Running') /\ Cardinality(Running') <= Workers
    <3>1. /\ IsFiniteSet(Running \cup {q})
          /\ Cardinality(Running \cup {q}) =
               IF q \in Running THEN Cardinality(Running) ELSE Cardinality(Running) + 1
      BY <2>1, FS_AddElement
    <3>2. IsFiniteSet(Running') /\ Cardinality(Running') <= Cardinality(Running \cup {q})
      BY <2>3, <3>1, FS_Subset
    <3>3. Cardinality(Running') \in Nat
      BY <3>2, FS_CardinalityType
    <3> QED BY <2>1, <2>3, <3>1, <3>2, <3>3, DeliveryAssumption
  <2> QED BY <1>1, <2>2, <2>3, RunningKinds
<1>4. CASE /\ queue' = queue \/ (queue # <<>> /\ queue' = Tail(queue))
           /\ DOMAIN thread' = DOMAIN thread
           /\ \A r \in DOMAIN thread : thread'[r] = thread[r] \/ thread'[r] \in Outcome
  <2>1. queue' \in Seq(Request)
    <3>1. queue \in Seq(Request)
      BY <1>1 DEF Pool
    <3>2. queue # <<>> => Tail(queue) \in Seq(Request)
      BY <3>1, HeadTailProperties
    <3> QED BY <1>4, <3>1, <3>2
  <2>2. \A r \in DOMAIN thread' : thread'[r] \in Outcome
    BY <1>1, <1>4 DEF Pool
  <2> QED BY <1>2, <1>3, <2>1, <2>2 DEF Pool
<1>5. ASSUME NEW n \in Call, Submits(n) PROVE Pool'
  <2> DEFINE k == stage'[n]
             a == attempt'[n]
             posts == plan'[n][k]
             made == [i \in DOMAIN posts |-> [call |-> n, stage |-> k, part |-> i, attempt |-> a]]
  <2>1. /\ Submit(n, k, a, posts) /\ k \in DOMAIN plan'[n] /\ at'[n] = "waiting"
    BY <1>5 DEF Submits
  <2>2. queue' = queue \o made
    BY <2>1 DEF Submit
  <2>3. TypedRequests'
    BY <1>2, RequestType, PTL
  <2>4. \A i \in DOMAIN posts : [call |-> n, stage |-> k, part |-> i, attempt |-> a] \in Request
    BY <2>1, <2>3, Submitted DEF TypedRequests
  <2>5. PICK m \in 1 .. 2 : DOMAIN posts = 1 .. m
    BY <1>2, <2>1 DEF Planned, Sound
  <2>6. made \in Seq(Request)
    <3>1. made \in [1 .. m -> Request]
      BY <2>4, <2>5
    <3> QED BY <3>1
  <2>7. queue' \in Seq(Request)
    <3>1. queue \in Seq(Request)
      BY <1>1 DEF Pool
    <3> HIDE DEF made
    <3> QED BY <2>2, <2>6, <3>1, ConcatProperties
  <2>8. \A r \in DOMAIN thread' : thread'[r] \in Outcome
    <3>1. \A r \in DOMAIN thread' :
            \/ r \in DOMAIN thread /\ thread'[r] = thread[r]
            \/ thread'[r] = "queued"
      BY <2>1, Submitted
    <3> QED BY <1>1, <3>1 DEF Pool, Outcome
  <2> QED BY <1>2, <1>3, <2>7, <2>8 DEF Pool
<1> QED BY <1>1, <1>4, <1>5, QueueKinds

LEMMA InitSent == ASSUME Init PROVE Sent
<1>1. IInv
  BY InitInv
<1>2. /\ \A n \in Call : batch[n] = <<>> /\ plan[n] = <<>> /\ at[n] = "idle" /\ attempt[n] = 0
      /\ DOMAIN thread = {} /\ queue = <<>> /\ batch = [n \in Call |-> <<>>]
  BY DEF Init
<1>3. <<>> \in Seq(Event) /\ <<>> \in Seq(Request)
  OBVIOUS
<1>4. Planned
  BY <1>2, <1>3 DEF Planned
<1>5. Asked
  BY <1>2, DeliveryAssumption DEF Asked
<1>6. Heard
  BY <1>2 DEF Heard
<1>7. Pool
  <2>1. Running = {}
    BY <1>2 DEF Running
  <2>2. IsFiniteSet(Running) /\ Cardinality(Running) <= Workers
    BY <2>1, FS_EmptySet, DeliveryAssumption
  <2>3. batch \in [Call -> Seq(Event)]
    BY <1>2, <1>3
  <2> QED BY <1>2, <1>3, <2>2, <2>3 DEF Pool
<1> QED BY <1>1, <1>4, <1>5, <1>6, <1>7 DEF Sent

LEMMA SentInvariant == Spec => [](Sent /\ IInv)
<1>1. Sent /\ IInv' /\ [Next]_vars => Sent'
  <2> SUFFICES ASSUME Sent, IInv', [Next]_vars PROVE Sent'
    OBVIOUS
  <2>1. Planned' /\ Asked' /\ Heard'
    BY PlannedInv, AskedInv, HeardInv
  <2> QED BY <2>1, PoolInv DEF Sent
<1> QED BY <1>1, InitSent, InductiveInvariant, PTL DEF Spec

\* The calls, the executor and the network hold what they should through every
\* interleaving; no more threads run than the pool has (webhook.py:166-228,
\* otlp.py:492-530, datadog.py:322-353, grafana.py:130-168).
THEOREM TypeCorrect == Spec => []TypeOK
<1>1. Sent => TypeOK
  <2> SUFFICES ASSUME Sent PROVE TypeOK
    OBVIOUS
  <2>1. IInv /\ Planned /\ Asked /\ Pool /\ Shape
    BY DEF Sent, IInv
  <2>2. DOMAIN thread \subseteq Request
    BY <2>1, RequestType DEF TypedRequests
  <2>3. attempt \in [Call -> 0 .. MaxRetries]
    BY <2>1, DeliveryAssumption DEF Shape, Asked
  <2> QED BY <2>1, <2>2, <2>3 DEF TypeOK, Shape, Status, Pool, Outcome
<1> QED BY <1>1, SentInvariant, PTL

\* When export_batch() returns, every event of the batch was received and not
\* refused at every destination it has: no chunk, no part of a Datadog batch and
\* no event without a trace is left out (webhook.py:166, otlp.py:492-530,
\* datadog.py:322-353, grafana.py:130).
THEOREM ReturnedIsDeliveredHolds == Spec => []ReturnedIsDelivered
<1>1. Sent => ReturnedIsDelivered
  <2> SUFFICES ASSUME Sent, NEW n \in Call, at[n] = "returned", NEW i \in DOMAIN batch[n],
                      NEW d \in Destinations(batch[n][i])
               PROVE  \E r \in received :
                        /\ r.call = n
                        /\ thread[r] = "ok"
                        /\ Body(r).to = d
                        /\ \E j \in DOMAIN Body(r).events : Body(r).events[j] = batch[n][i]
    BY DEF ReturnedIsDelivered
  <2>1. Sound(exporter, batch[n], plan[n]) /\ exporter \in Exporter
    BY DEF Sent, Planned, IInv, Shape
  <2>2. d \in Goes(exporter, batch[n][i])
    BY <2>1, GoesFacts
  <2>3. Brings(plan[n], batch[n][i], d)
    BY <2>1, <2>2 DEF Sound
  <2>4. PICK k \in DOMAIN plan[n] : \E j \in DOMAIN plan[n][k] :
          /\ plan[n][k][j].to = d
          /\ \E h \in DOMAIN plan[n][k][j].events : plan[n][k][j].events[h] = batch[n][i]
    BY <2>3 DEF Brings
  <2>5. PICK j \in DOMAIN plan[n][k] :
          /\ plan[n][k][j].to = d
          /\ \E h \in DOMAIN plan[n][k][j].events : plan[n][k][j].events[h] = batch[n][i]
    BY <2>4
  <2>6. PICK r \in received : r.call = n /\ r.stage = k /\ r.part = j /\ thread[r] = "ok"
    BY DEF Sent, Heard, Acknowledged
  <2>7. Body(r) = plan[n][k][j]
    BY <2>6 DEF Body
  <2> QED BY <2>5, <2>6, <2>7
<1> QED BY <1>1, SentInvariant, PTL

-----------------------------------------------------------------------------
(* The refinement of Courier.                                              *)

\* A body is received no more often than the exporter sends it.
LEMMA CopyBound ==
  ASSUME Sent, NEW r \in DOMAIN thread
  PROVE  LET p == <<r.stage, r.part>>
         IN  /\ IsFiniteSet(CopiesOf(r.call, p))
             /\ Cardinality(CopiesOf(r.call, p) \cup {r}) <= Tries
             /\ r \notin received => Cardinality(CopiesOf(r.call, p)) < Tries
             /\ Cardinality(CopiesOf(r.call, p)) \in Nat
             /\ r \notin received =>
                  Cardinality(CopiesOf(r.call, p) \cup {r}) = Cardinality(CopiesOf(r.call, p)) + 1
<1> DEFINE p == <<r.stage, r.part>>
           C == CopiesOf(r.call, p)
           S == C \cup {r}
           f == [q \in S |-> q.attempt]
<1>1. IInv /\ Asked /\ Shape /\ RequestShape /\ PlanShape
  BY DEF Sent, IInv
<1>2. Tries \in Nat /\ Tries >= 1
  BY DeliveryAssumption DEF Tries
<1>3. ASSUME NEW q \in S
      PROVE  /\ q.call = r.call /\ q.stage = r.stage /\ q.part = r.part
             /\ q = [call |-> r.call, stage |-> r.stage, part |-> r.part, attempt |-> q.attempt]
             /\ q.attempt \in 0 .. Tries - 1
  <2>1. q \in DOMAIN thread /\ q.call = r.call /\ q.stage = r.stage /\ q.part = r.part
    BY <1>1 DEF CopiesOf, Shape
  <2>2. /\ q = [call |-> q.call, stage |-> q.stage, part |-> q.part, attempt |-> q.attempt]
        /\ q.call \in Call /\ q.attempt \in Nat /\ q.attempt <= attempt[q.call]
    BY <1>1, <2>1 DEF RequestShape
  <2>3. q.attempt \in 0 .. Tries - 1
    <3>1. /\ attempt[q.call] \in Nat /\ attempt[q.call] <= MaxRetries
          /\ exporter # "webhook" => attempt[q.call] = 0
      BY <1>1, <2>2 DEF Shape, Asked, PlanShape
    <3> QED BY <2>2, <3>1, DeliveryAssumption DEF Tries
  <2> QED BY <2>1, <2>2, <2>3
<1>4. C \subseteq S /\ S = C \cup {r} /\ (r \notin received => r \notin C)
  BY DEF CopiesOf
<1> HIDE DEF C, S, p
<1>5. f \in Injection(S, 0 .. Tries - 1)
  <2>1. f \in [S -> 0 .. Tries - 1]
    BY <1>3
  <2>2. ASSUME NEW x \in S, NEW y \in S, f[x] = f[y] PROVE x = y
    <3>1. x.attempt = y.attempt
      BY <2>2
    <3> QED BY <1>3, <3>1
  <2>3. DOMAIN f = S
    OBVIOUS
  <2> HIDE DEF f
  <2> QED BY <2>1, <2>2, <2>3 DEF Injection, IsInjective
<1> HIDE DEF f
<1>6. IsFiniteSet(0 .. Tries - 1) /\ Cardinality(0 .. Tries - 1) = Tries
  <2>1. /\ IsFiniteSet(0 .. Tries - 1)
        /\ Cardinality(0 .. Tries - 1) = IF 0 > Tries - 1 THEN 0 ELSE (Tries - 1) - 0 + 1
    <3>1. 0 \in Int /\ Tries - 1 \in Int
      BY <1>2
    <3> QED BY <3>1, FS_Interval
  <2> QED BY <1>2, <2>1
<1>7. IsFiniteSet(S) /\ Cardinality(S) <= Tries /\ Cardinality(S) \in Nat
  <2>1. IsFiniteSet(S) /\ Cardinality(S) <= Cardinality(0 .. Tries - 1)
    BY <1>5, <1>6, FS_Injection
  <2> QED BY <1>6, <2>1, FS_CardinalityType
<1>8. IsFiniteSet(C) /\ Cardinality(C) \in Nat
  BY <1>4, <1>7, FS_Subset, FS_CardinalityType
<1>9. r \notin C => Cardinality(S) = Cardinality(C) + 1
  BY <1>4, <1>8, FS_AddElement
<1> QED BY <1>2, <1>4, <1>7, <1>8, <1>9 DEF C, p

\* The step moves call n from one place to another, and nothing else that
\* Courier knows of.
Moved(n, place) ==
  /\ at' = [at EXCEPT ![n] = place]
  /\ UNCHANGED <<exporter, plan, received>>

LEMMA MovedFacts ==
  ASSUME IInv, NEW n \in Call, NEW place, Moved(n, place)
  PROVE  /\ Statuses' = [Statuses EXCEPT ![n] = Standing(place)]
         /\ UNCHANGED <<Tries, Owed, Copies>>
<1>1. at \in [Call -> Status] /\ at' = [at EXCEPT ![n] = place]
  BY DEF IInv, Shape, Moved
<1>2. UNCHANGED <<Tries, Owed, Copies>>
  BY DEF Moved, Tries, Owed, Copies, CopiesOf
<1>3. Statuses' = [m \in Call |-> Standing(at'[m])]
  BY DEF Statuses
<1>4. at'[n] = place /\ \A m \in Call : m # n => at'[m] = at[m]
  BY <1>1
<1>5. Statuses' = [Statuses EXCEPT ![n] = Standing(place)]
  BY <1>3, <1>4 DEF Statuses
<1> QED BY <1>2, <1>5

LEMMA StandingFacts ==
  /\ Standing("idle") = "idle" /\ Standing("waiting") = "pending"
  /\ Standing("sleeping") = "pending" /\ Standing("returned") = "delivered"
  /\ Standing("raised") = "failed" /\ Standing("escaped") = "failed"
  /\ Standing("cancelled") = "failed"
BY DEF Standing, Ended

LEMMA ReturnDelivers ==
  ASSUME Sent, NEW n \in Call, Return(n) PROVE Promise!Deliver(n)
<1>1. at[n] = "waiting" /\ Moved(n, "returned")
  BY DEF Return, End, Goto, Moved, payload, network
<1>2. /\ Statuses' = [Statuses EXCEPT ![n] = "delivered"] /\ UNCHANGED <<Tries, Owed, Copies>>
      /\ Statuses[n] = "pending"
  BY <1>1, MovedFacts, StandingFacts DEF Sent, Statuses
<1>3. ASSUME NEW p \in Owed[n] PROVE Copies[n][p] > 0
  <2>1. PICK k \in DOMAIN plan[n] : p \in {k} \X DOMAIN plan[n][k]
    BY DEF Owed
  <2>2. PICK i \in DOMAIN plan[n][k] : p = <<k, i>>
    BY <2>1
  <2>3. PICK r \in received : r.call = n /\ r.stage = k /\ r.part = i
    BY ReturnHasAll DEF Acknowledged
  <2>4. r \in DOMAIN thread
    BY DEF Sent, IInv, Shape
  <2>5. r \in CopiesOf(n, p) /\ p = <<r.stage, r.part>>
    BY <2>2, <2>3 DEF CopiesOf
  <2>6. IsFiniteSet(CopiesOf(n, p)) /\ Cardinality(CopiesOf(n, p)) \in Nat
    BY <2>3, <2>4, <2>5, CopyBound
  <2>7. Cardinality(CopiesOf(n, p)) > 0
    BY <2>5, <2>6, FS_EmptySet
  <2>8. p \in Parts
    <3>1. r \in Request
      BY <2>4, RequestType DEF Sent, TypedRequests
    <3>2. r.stage \in 1 .. Len(Stream) /\ r.part \in 1 .. 2
      BY <3>1 DEF Request
    <3> QED BY <2>5, <3>2 DEF Parts
  <2> QED BY <2>7, <2>8 DEF Copies
<1> QED BY <1>2, <1>3 DEF Promise!Deliver

LEMMA FailureFails ==
  ASSUME Sent, NEW n \in Call, Raise(n) \/ Escape(n) \/ Cancel(n) PROVE Promise!Fail(n)
<1>1. at[n] \in {"waiting", "sleeping"}
  BY DEF Raise, Escape, Cancel
<1>2. Moved(n, "raised") \/ Moved(n, "escaped") \/ Moved(n, "cancelled")
  BY DEF Raise, Escape, Cancel, End, Goto, Moved, payload, network
<1>3. Statuses[n] = "pending"
  BY <1>1, StandingFacts DEF Statuses
<1>4. Statuses' = [Statuses EXCEPT ![n] = "failed"] /\ UNCHANGED <<Tries, Owed, Copies>>
  BY <1>2, MovedFacts, StandingFacts DEF Sent
<1> QED BY <1>3, <1>4 DEF Promise!Fail

\* The parts of a plan.
PartsOf(p) == UNION {{k} \X DOMAIN p[k] : k \in DOMAIN p}

LEMMA OwedFacts ==
  /\ Owed = [n \in Call |-> PartsOf(plan[n])]
  /\ Owed' = [n \in Call |-> PartsOf(plan'[n])]
BY DEF Owed, PartsOf

LEMMA PartsFacts ==
  ASSUME NEW x, NEW b, NEW p, Sound(x, b, p)
  PROVE  /\ PartsOf(p) \subseteq Parts
         /\ PartsOf(p) = {} <=> 1 \notin DOMAIN p
<1>1. PICK m \in 0 .. Len(Stream) : DOMAIN p = 1 .. m
  BY DEF Sound
<1>2. \A k \in DOMAIN p : \E c \in 1 .. 2 : DOMAIN p[k] = 1 .. c
  BY DEF Sound
<1>3. Len(Stream) \in Nat
  BY DeliveryAssumption
<1>4. ASSUME NEW y \in PartsOf(p) PROVE y \in Parts
  <2>1. PICK k \in DOMAIN p : y \in {k} \X DOMAIN p[k]
    BY DEF PartsOf
  <2>2. PICK i \in DOMAIN p[k] : y = <<k, i>>
    BY <2>1
  <2>3. k \in 1 .. Len(Stream) /\ i \in 1 .. 2
    BY <1>1, <1>2, <1>3
  <2> QED BY <2>2, <2>3 DEF Parts
<1>5. ASSUME 1 \notin DOMAIN p PROVE PartsOf(p) = {}
  <2>1. DOMAIN p = {}
    BY <1>1, <1>3, <1>5
  <2> QED BY <2>1 DEF PartsOf
<1>6. ASSUME 1 \in DOMAIN p PROVE PartsOf(p) # {}
  <2>1. 1 \in DOMAIN p[1]
    BY <1>2, <1>6
  <2>2. <<1, 1>> \in {1} \X DOMAIN p[1]
    BY <2>1
  <2>3. <<1, 1>> \in PartsOf(p)
    BY <1>6, <2>2 DEF PartsOf
  <2> QED BY <2>3
<1> QED BY <1>4, <1>5, <1>6

LEMMA BeginTakes ==
  ASSUME Sent, NEW n \in Call, NEW predicate, Begin(n, predicate)
  PROVE  \E parts \in SUBSET Parts : Promise!Take(n, parts)
<1> DEFINE parts == PartsOf(plan'[n])
<1>1. /\ IInv /\ Shape
  BY DEF Sent, IInv
<1>2. PICK events : /\ Sound(exporter, events, plan'[n])
                    /\ at[n] = "idle"
                    /\ \A m \in Call : m # n => at'[m] = at[m] /\ plan'[m] = plan[m]
  BY <1>1, BatchOfBegin
<1>3. /\ plan' = [plan EXCEPT ![n] = Plan(Filter(Stream, predicate))]
      /\ IF 1 \in DOMAIN Plan(Filter(Stream, predicate))
         THEN at' = [at EXCEPT ![n] = "waiting"] ELSE at' = [at EXCEPT ![n] = "returned"]
      /\ UNCHANGED <<exporter, received>>
  BY Zenon DEF Begin, Goto, network
<1>4. /\ plan'[n] = Plan(Filter(Stream, predicate))
      /\ at'[n] = IF 1 \in DOMAIN plan'[n] THEN "waiting" ELSE "returned"
  BY <1>1, <1>3 DEF Shape
<1>5. parts \in SUBSET Parts /\ (parts = {} <=> 1 \notin DOMAIN plan'[n])
  BY <1>2, PartsFacts
<1>6. Owed' = [Owed EXCEPT ![n] = parts]
  <2> HIDE DEF parts
  <2>1. \A m \in Call : PartsOf(plan'[m]) = IF m = n THEN parts ELSE PartsOf(plan[m])
    BY <1>2 DEF parts
  <2> QED BY <2>1, OwedFacts
<1> HIDE DEF parts
<1>7. Standing(at'[n]) = IF parts = {} THEN "delivered" ELSE "pending"
  BY <1>4, <1>5, StandingFacts
<1>8. /\ Statuses[n] = "idle"
      /\ Statuses' = [Statuses EXCEPT ![n] = IF parts = {} THEN "delivered" ELSE "pending"]
  <2>1. Statuses' = [m \in Call |-> Standing(at'[m])] /\ Statuses = [m \in Call |-> Standing(at[m])]
    BY DEF Statuses
  <2>2. \A m \in Call : m # n => Standing(at'[m]) = Standing(at[m])
    BY <1>2
  <2> QED BY <1>2, <1>7, <2>1, <2>2, StandingFacts
<1>9. UNCHANGED <<Tries, Copies>>
  BY <1>3 DEF Tries, Copies, CopiesOf
<1> QED BY <1>5, <1>6, <1>8, <1>9 DEF Promise!Take

LEMMA ReceiveArrives ==
  ASSUME Sent, NEW r \in DOMAIN thread, Receive(r)
  PROVE  r.call \in Call /\ \E p \in Parts : Promise!Arrive(r.call, p)
<1> DEFINE n == r.call
           p == <<r.stage, r.part>>
<1>1. /\ r \notin received /\ received' = received \cup {r}
      /\ UNCHANGED <<exporter, plan, at>>
  BY DEF Receive, loop, payload
<1>2. /\ IInv /\ Asked /\ n \in Call
  BY DEF Sent, IInv, RequestShape
<1>3. p \in Parts
  <2>1. r \in Request
    BY RequestType DEF Sent, TypedRequests
  <2>2. r.stage \in 1 .. Len(Stream) /\ r.part \in 1 .. 2
    BY <2>1 DEF Request
  <2> QED BY <2>2 DEF Parts
<1>4. p \in Owed[n]
  <2>1. r.stage \in DOMAIN plan[n] /\ r.part \in DOMAIN plan[n][r.stage]
    BY <1>2 DEF Asked
  <2>2. p \in {r.stage} \X DOMAIN plan[n][r.stage]
    BY <2>1
  <2>3. p \in PartsOf(plan[n])
    BY <2>1, <2>2 DEF PartsOf
  <2> QED BY <1>2, <2>3, OwedFacts
<1>5. /\ Cardinality(CopiesOf(n, p)) < Tries
      /\ Cardinality(CopiesOf(n, p) \cup {r}) = Cardinality(CopiesOf(n, p)) + 1
  BY <1>1, CopyBound
<1>6. Copies' = [m \in Call |-> [q \in Parts |-> Cardinality(CopiesOf(m, q)')]]
  BY DEF Copies
<1>7. ASSUME NEW m \in Call, NEW q \in Parts
      PROVE  CopiesOf(m, q)' = IF m = n /\ q = p THEN CopiesOf(n, p) \cup {r} ELSE CopiesOf(m, q)
  <2>1. q = <<q[1], q[2]>>
    BY DEF Parts
  <2>2. CASE m = n /\ q = p
    BY <1>1, <2>2 DEF CopiesOf
  <2>3. CASE ~(m = n /\ q = p)
    <3>1. ~(r.call = m /\ r.stage = q[1] /\ r.part = q[2])
      BY <2>1, <2>3
    <3>2. CopiesOf(m, q)' = CopiesOf(m, q)
      BY <1>1, <3>1 DEF CopiesOf
    <3> QED BY <2>3, <3>2
  <2> QED BY <2>2, <2>3
<1> HIDE DEF n, p
<1>8. Copies' = [Copies EXCEPT ![n][p] = @ + 1] /\ Copies[n][p] < Tries
  <2>1. Copies[n] = [q \in Parts |-> Cardinality(CopiesOf(n, q))] /\ DOMAIN Copies = Call
    BY <1>2 DEF Copies
  <2>2. ASSUME NEW m \in Call, m # n
        PROVE  [q \in Parts |-> Cardinality(CopiesOf(m, q)')] = Copies[m]
    BY <1>7, <2>2 DEF Copies
  <2>3. [q \in Parts |-> Cardinality(CopiesOf(n, q)')] = [Copies[n] EXCEPT ![p] = @ + 1]
    <3>1. \A q \in Parts : Cardinality(CopiesOf(n, q)') =
            IF q = p THEN Copies[n][p] + 1 ELSE Copies[n][q]
      BY <1>2, <1>3, <1>5, <1>7, <2>1
    <3> QED BY <1>3, <2>1, <3>1
  <2>4. Copies' = [Copies EXCEPT ![n] = [Copies[n] EXCEPT ![p] = @ + 1]]
    <3> DEFINE row == [Copies[n] EXCEPT ![p] = @ + 1]
               G(m) == [q \in Parts |-> Cardinality(CopiesOf(m, q)')]
    <3>1. Copies' = [m \in Call |-> G(m)] /\ G(n) = row /\ \A m \in Call : m # n => G(m) = Copies[m]
      BY <1>6, <2>2, <2>3
    <3> HIDE DEF row, G
    <3>2. Copies' = [Copies EXCEPT ![n] = row]
      BY <1>2, <2>1, <3>1 DEF Copies
    <3> QED BY <3>2 DEF row
  <2>5. Copies[n][p] < Tries
    BY <1>3, <1>5, <2>1
  <2> QED BY <2>4, <2>5
<1>9. UNCHANGED <<Tries, Statuses, Owed>>
  BY <1>1 DEF Tries, Statuses, Owed
<1> QED BY <1>2, <1>3, <1>4, <1>8, <1>9 DEF Promise!Arrive, n

\* A call that goes on stays pending, and the threads change nothing that the
\* promise is about.
LEMMA OthersStutter ==
  ASSUME Sent,
         (\E n \in Call : Advance(n) \/ Backoff(n) \/ Wake(n)) \/ Thread \/ UNCHANGED vars
  PROVE  UNCHANGED Promise!vars
<1>1. ASSUME NEW n \in Call, Backoff(n) \/ Wake(n) PROVE UNCHANGED Promise!vars
  <2>1. at[n] \in {"waiting", "sleeping"} /\ (Moved(n, "sleeping") \/ Moved(n, "waiting"))
    BY <1>1 DEF Backoff, Wake, Retry, Goto, Moved, payload, network
  <2>2. Statuses[n] = "pending" /\ DOMAIN Statuses = Call
    BY <2>1, StandingFacts DEF Statuses
  <2>3. Statuses' = [Statuses EXCEPT ![n] = "pending"] /\ UNCHANGED <<Tries, Owed, Copies>>
    BY <2>1, MovedFacts, StandingFacts DEF Sent
  <2>4. Statuses' = Statuses
    BY <2>2, <2>3 DEF Statuses
  <2> QED BY <2>3, <2>4 DEF Promise!vars
<1>2. ASSUME UNCHANGED <<at, exporter, plan, received>> PROVE UNCHANGED Promise!vars
  BY <1>2 DEF Promise!vars, Tries, Statuses, Owed, Copies, CopiesOf
<1>3. CASE (\E n \in Call : Advance(n)) \/ Thread \/ UNCHANGED vars
  BY <1>2, <1>3 DEF Advance, Thread, Start, Unreachable, Lose, Hear, Settle, loop, payload,
                    network, vars
<1> QED BY <1>1, <1>3

LEMMA InitPromises == ASSUME Init PROVE Promise!Init
<1>1. /\ exporter \in Exporter /\ at = [n \in Call |-> "idle"] /\ plan = [n \in Call |-> <<>>]
      /\ received = {}
  BY DEF Init
<1>2. Tries \in 1 .. MaxRetries + 1
  BY DeliveryAssumption DEF Tries
<1>3. Statuses = [n \in Call |-> "idle"]
  BY <1>1, StandingFacts DEF Statuses
<1>4. Owed = [n \in Call |-> {}]
  <2>1. PartsOf(<<>>) = {}
    BY DEF PartsOf
  <2> QED BY <1>1, <2>1, OwedFacts
<1>5. Copies = [n \in Call |-> [p \in Parts |-> 0]]
  <2>1. \A n \in Call, p \in Parts : Cardinality(CopiesOf(n, p)) = 0
    BY <1>1, FS_EmptySet DEF CopiesOf
  <2> QED BY <2>1 DEF Copies
<1> QED BY <1>2, <1>3, <1>4, <1>5 DEF Promise!Init

\* The exporters keep the promise of module Courier under every interleaving of
\* calls, threads and network: a part arrives at most as often as it is sent,
\* perhaps late; a call that returns has seen every part arrive
\* (webhook.py:166-228, otlp.py:492-530, datadog.py:322-353, grafana.py:130-168).
THEOREM CourierImplemented == Spec => ImplementsCourier
<1>1. ASSUME Sent, Next PROVE Promise!Next \/ UNCHANGED Promise!vars
  <2>1. ASSUME NEW n \in Call, NEW predicate \in Predicate, Begin(n, predicate) PROVE Promise!Next
    BY <1>1, <2>1, BeginTakes DEF Promise!Next
  <2>2. ASSUME NEW n \in Call, Return(n) PROVE Promise!Next
    BY <1>1, <2>2, ReturnDelivers DEF Promise!Next
  <2>3. ASSUME NEW n \in Call, Raise(n) \/ Escape(n) \/ Cancel(n) PROVE Promise!Next
    BY <1>1, <2>3, FailureFails DEF Promise!Next
  <2>4. ASSUME NEW r \in DOMAIN thread, Receive(r) PROVE Promise!Next
    BY <1>1, <2>4, ReceiveArrives DEF Promise!Next
  <2>5. CASE (\E n \in Call : Advance(n) \/ Backoff(n) \/ Wake(n)) \/ Thread
    BY <1>1, <2>5, OthersStutter
  <2> QED BY <1>1, <2>1, <2>2, <2>3, <2>4, <2>5 DEF Next, Loop
<1>2. Sent /\ [Next]_vars => [Promise!Next]_(Promise!vars)
  BY <1>1, OthersStutter
<1> QED BY <1>2, InitPromises, SentInvariant, PTL DEF Spec, ImplementsCourier, Promise!Spec
=============================================================================
