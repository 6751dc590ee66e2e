----------------------------- MODULE Lifecycle ------------------------------
(***************************************************************************)
(* The life of one event: a payload object is built, by the application, a *)
(* policy or a framework callback; it becomes the payload of an event,     *)
(* where the application may wrap values as Redactable; and the event is   *)
(* redacted, signed, sent as JSON and through the pydantic model, in any   *)
(* order and any number of times.                                          *)
(***************************************************************************)
EXTENDS Events

CONSTANTS Tried,       \* the objects an application builds
          Varied       \* those whose events it also wraps and changes

VARIABLES made,        \* the payload object and its class
          event,       \* the event as its current holder has it
          secrets,     \* the fields the application wrapped
          dropped      \* the fields an older producer did not send

lifeVars == <<fence, made, event, secrets, dropped>>

LifeInit ==
  /\ FenceInit
  /\ made = Nothing
  /\ event = Nothing
  /\ secrets = {}
  /\ dropped = {}

----------------------------------------------------------------------------
\* Building a payload.

\* The application calls a constructor.
Build(b) ==
  /\ fence.status = "idle" /\ made = Nothing
  /\ Constructs(b.class, b.object)
  /\ made' = b
  /\ UNCHANGED <<fence, event, secrets, dropped>>

\* A payload some policy made; a constructor that raises leaves none.
TakeFrom(results) ==
  /\ made = Nothing
  /\ \E r \in results : Constructs(r.class, r.object) /\ made' = r
  /\ UNCHANGED <<fence, event, secrets, dropped>>

Policy ==
  \/ TakeFrom(Returned)
  \/ fence.status = "idle" /\ TakeFrom(GuardMakes \cup TemplateMakes)

Fence ==
  /\ made = Nothing
  /\ \/ \E n \in 0 .. MaxRetries : RetrySequence(n)
     \/ \E verdict \in Verdict : Attempt(verdict)
     \/ AttemptRaises
  /\ UNCHANGED <<made, event, secrets, dropped>>

\* on_event_end() of the LlamaIndex handler: a payload of its own, where the
\* duration and the counts may be None.
HandlerPayloads ==
  [event_id : {"'a'"}, duration_ms : {"1", None}]
    \cup [event_id : {"'a'"}, duration_ms : {"1", None}, prompt_tokens : {"1", None},
          completion_tokens : {"1", None}, total_tokens : {"2", None}]

\* "no payload yet" is none of the payloads.
ASSUME LifecycleAssumption ==
  /\ \A b \in Tried : \E c \in Class : b \in ObjectsOf(c)
  /\ \A c \in Class : Nothing \notin ObjectsOf(c)
  /\ Nothing \notin [class : {"handler"}, object : HandlerPayloads]

Handle(payload) ==
  /\ fence.status = "idle" /\ made = Nothing
  /\ made' = [class |-> "handler", object |-> payload]
  /\ event' = Event(payload, NoWraps, [GoodEnvelope EXCEPT !.source = "bare", !.trace = "none"])
  /\ UNCHANGED <<fence, secrets, dropped>>

----------------------------------------------------------------------------
\* The event.

Emit(drop, wraps, env) ==
  /\ made # Nothing /\ event = Nothing
  /\ LET sent == ToDict(made.class, made.object)
     IN  event' = Event([f \in DOMAIN sent \ drop |-> sent[f]], wraps, env)
  /\ secrets' = DOMAIN wraps
  /\ dropped' = drop
  /\ UNCHANGED <<fence, made>>

\* One field wrapped in every way, or two as a whole.
OneWrapped(payload) ==
  UNION {[{f} -> {w \in Wrap : w.place \in Wrappable(payload[f])}] : f \in DOMAIN payload}

TwoWrapped(payload) ==
  UNION {[two -> [sens : DOMAIN Sensitivity, place : {"field"}]] :
           two \in {fs \in SUBSET DOMAIN payload : Cardinality(fs) = 2}}

Wrappings(payload) == OneWrapped(payload) \cup TwoWrapped(payload)

\* As it is; from an older producer; with an odd envelope; with secrets.
EmitAny ==
  /\ made # Nothing /\ event = Nothing
  /\ made.class \in Class
  /\ \/ \E f \in Fields(made.class) : Emit({f}, NoWraps, GoodEnvelope)
     \/ Emit({}, NoWraps, GoodEnvelope)
     \/ /\ made \in Varied
        /\ \/ Emit(Fields(made.class), NoWraps, GoodEnvelope)
           \/ \E env \in Envelopes : Emit({}, NoWraps, env)
           \/ \E wraps \in Wrappings(ToDict(made.class, made.object)) :
                Emit({}, wraps, GoodEnvelope)

Keep == UNCHANGED <<fence, made, secrets, dropped>>

Redact(min) == event # Nothing /\ event' = Apply(event, min) /\ Keep

Sign == event # Nothing /\ Serialisable(event) /\ event' = Seal(event) /\ Keep

Json == event # Nothing /\ Serialisable(event) /\ event' = ThroughJson(event) /\ Keep

Model == event # Nothing /\ ModelAccepts(event) /\ event' = ThroughModel(event) /\ Keep

LifeNext ==
  \/ \E b \in Tried : Build(b)
  \/ Policy
  \/ Fence
  \/ \E payload \in HandlerPayloads : Handle(payload)
  \/ EmitAny
  \/ \E min \in DOMAIN Sensitivity : Redact(min)
  \/ Sign
  \/ Json
  \/ Model

LifeSpec == LifeInit /\ [][LifeNext]_lifeVars

----------------------------------------------------------------------------
\* Properties.

\* No exporter writes a value the application wrapped, whatever was redacted
\* before, by which policy, and whatever the export was preceded by.
NothingLeaks ==
  event # Nothing =>
    \A x \in Exporters, f \in secrets :
      f \in DOMAIN event.payload =>
        Shown(x, event, f) \in {"nothing", "placeholder", "['#']", "{'a':'#'}", "{obj#}", "[{obj#}]"}
                                 \cup Markers

\* The duration was wrapped, or is none, or not finite.
OddDuration ==
  "duration_ms" \in secrets
    \/ ("duration_ms" \in DOMAIN made.object /\ made.object["duration_ms"] \notin Finite)

\* assert_redacted() stands for the whole way out.  Where it raises, JSON and
\* the signature do as well; an event it lets pass, and that validates, makes
\* it through the model, the other checks and every exporter, but for a value
\* in a set, an odd duration, redacted token counts, and the spellings on
\* which the checks differ.
GatesHold ==
  event # Nothing =>
    /\ ~AssertRedacted(event) => ~Serialisable(event)
    /\ AssertRedacted(event) =>
         Serialisable(event) \/ \E f \in DOMAIN event.wraps : event.wraps[f].place = "set"
    /\ Validates(event) /\ AssertRedacted(event) /\ Serialisable(event) =>
         /\ \A x \in Exporters :
              ExportRaises(x, event) => OddDuration \/ "token_usage" \in secrets
         /\ ModelAccepts(event) \/ event.env.org = "blank"
         /\ StdlibAccepts(event) \/ event.env.type = "xdots" \/ event.env.id = "lower"
         /\ Compatible(event) \/ event.env.type \in {"reserved", "xshort"}

\* What from_dict() may make of a value that was redacted: the marker, the list
\* of its characters, true, a value with an item marked; and, for the one field
\* that is not checked but read with str(), the text of such a value.
Veiled(f) ==
  Markers \cup {"characters", "['#']", "True", "{'a':'#'}", "obj#", "[obj#]"}
    \cup (IF f = "action" THEN {"'?'"} ELSE {})

\* A reader with from_dict() gets the object that was built, field by field,
\* however the event travelled.  A field that was redacted reads as veiled, one
\* that was not sent as its default.  Reading raises only over a redacted or a
\* missing field.
CopiesAgree ==
  event # Nothing /\ made.class # "handler" /\ Serialisable(event) =>
    LET c == made.class
        copy == FromDict(c, event.payload)
    IN  IF copy = Failed THEN secrets \cup dropped # {}
        ELSE \A f \in Fields(c) :
               CASE f \in dropped -> copy[f] = Classes[c][f].absent
                 [] f \in secrets -> copy[f] \in Veiled(f)
                 [] OTHER -> \/ Same(copy[f], made.object[f])
                             \/ f = "action"
                             \/ made.object[f] = "intkeys"

\* What was signed still verifies after redaction, JSON and the model, unless a
\* dictionary had keys that JSON turns into texts.
SignatureLasts ==
  event # Nothing /\ event.seal # Nothing =>
    Verifies(event) \/ \E f \in DOMAIN event.payload : event.seal.payload[f] = "intkeys"

\* FencePolicy announces exactly the attempts that follow: the n-th retry event
\* has number n + 1, all are within max_attempts, and when the call returns
\* every announced attempt was made and the result is that of the last one,
\* which passed, may not be retried, or was the last allowed.
RetriesAddUp ==
  fence.status \in {"running", "done"} /\ fence.calls > 0 =>
    LET last == fence.result.object
        pending == IF fence.status = "running" THEN 1 ELSE 0
    IN  /\ Len(fence.retries) + 1 = fence.calls + pending
        /\ \A i \in DOMAIN fence.retries :
             LET retry == fence.retries[i]
             IN  retry.object.attempt = Numeral[i + 1] /\ Constructs(retry.class, retry.object)
        /\ last.attempt = Numeral[fence.calls]
        /\ fence.status = "done" =>
             \/ fence.result.class = "ValidationPassed"
             \/ last.retryable = "False"
             \/ fence.calls = fence.max
=============================================================================
