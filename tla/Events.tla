------------------------------- MODULE Events -------------------------------
(***************************************************************************)
(* An event as a value, and the functions over it: validation by each of   *)
(* the checkers, redaction, signing, serialisation, and what the exporters *)
(* make of it.                                                             *)
(*                                                                         *)
(* payload is the dictionary without the Redactable wrappers, wraps says   *)
(* which of its fields hold one, of which sensitivity and where: the field *)
(* itself, an item of its list or dictionary, or a value inside a mapping  *)
(* that is no dict, or inside a set.  count is "__redaction_count" and its *)
(* two companions, 0 while they are absent.  seal is what checksum and     *)
(* signature were computed from.                                           *)
(***************************************************************************)
EXTENDS Policies

Sensitivity == [medium |-> 1, pii |-> 3]
Place == {"field", "item", "mapping", "set"}
Wrap == [sens : DOMAIN Sensitivity, place : Place]

NoWraps == [f \in {} |-> Nothing]

\* Event(...): the envelope as the application gives it.
Event(payload, wraps, env) ==
  [payload |-> payload, wraps |-> wraps, count |-> 0, env |-> env, seal |-> Nothing]

\* Where a value can be wrapped.
Wrappable(value) ==
  {"field"} \cup
  (IF value \in Lists \ {"[]"} THEN {"item", "set"} ELSE {}) \cup
  (IF value \in {"{'a':1}", "{'a':'a'}"} THEN {"item", "mapping"} ELSE {}) \cup
  (IF value \in {"{obj}", "[{obj}]"} THEN {"item"} ELSE {})

----------------------------------------------------------------------------
\* The envelope: one spelling of each sort the checkers tell apart.  "bare" is
\* a source without a version, "twopart" a type such as "foo.bar", "loose" an
\* id of 26 letters and digits that is no ULID, "impossible" the 30th of
\* February.

Sorts == [type |-> {"registered", "custom", "unreserved", "reserved", "xshort", "xdots",
                    "twopart", "bad"},
          timestamp |-> {"good", "impossible", "bad"},
          source |-> {"good", "short", "bare"},
          id |-> {"upper", "lower", "loose", "bad"},
          org |-> {"none", "acme", "empty", "blank"},
          trace |-> {"none", "hex", "bad"}]
GoodEnvelope == [type |-> "registered", timestamp |-> "good", source |-> "good",
                 id |-> "upper", org |-> "none", trace |-> "hex"]
Envelopes == UNION {{[GoodEnvelope EXCEPT ![p] = s] : s \in Sorts[p]} : p \in DOMAIN Sorts}

Patterned == {"registered", "custom", "unreserved", "reserved", "xshort", "xdots"}

\* Event.validate()
Validates(e) ==
  /\ e.env.type \in Patterned
  /\ e.env.timestamp = "good"
  /\ e.env.source = "good"
  /\ e.env.id \in {"upper", "lower"}
  /\ e.env.org # "empty"
  /\ e.env.trace # "bad"
  /\ DOMAIN e.payload # {}

\* The field validators of EventModel.
ModelAccepts(e) ==
  /\ e.env.type \in Patterned
  /\ e.env.timestamp # "bad"
  /\ e.env.source = "good"
  /\ e.env.id \in {"upper", "lower"}
  /\ e.env.org \notin {"empty", "blank"}
  /\ e.env.trace # "bad"
  /\ DOMAIN e.payload # {}

\* validate_event() without jsonschema.
StdlibAccepts(e) ==
  /\ e.env.type \in (Patterned \ {"xdots"}) \cup {"twopart"}
  /\ e.env.timestamp # "bad"
  /\ e.env.source = "good"
  /\ e.env.id \in {"upper", "loose"}
  /\ e.env.org # "empty"
  /\ e.env.trace # "bad"
  /\ DOMAIN e.payload # {}

\* validate_event() with jsonschema: the patterns of the schema for checksum
\* and signature lack the prefixes that sign() writes.
SchemaAccepts(e) == StdlibAccepts(e) /\ e.seal = Nothing

\* test_compatibility()
Compatible(e) ==
  /\ DOMAIN e.payload # {}
  /\ e.env.type \in Patterned \ {"reserved", "xshort"}
  /\ e.env.source \in {"good", "short"}
  /\ e.env.id \in {"upper", "lower"}

----------------------------------------------------------------------------
\* Redaction.

\* Mutant of Reached: lists are not searched.
ReachedOutsideLists(e) ==
  {f \in DOMAIN e.wraps : /\ e.wraps[f].place # "set"
                          /\ e.wraps[f].place = "item" => e.payload[f] \notin Lists}

\* The fields where _count_redactable() and _has_redactable() find a wrapper.
Reached(e) == {f \in DOMAIN e.wraps : e.wraps[f].place # "set"}

\* assert_redacted() returns, contains_pii() is false.
AssertRedacted(e) == Reached(e) = {}

\* _should_redact(), where _redact_value() gets to.
Due(e, min) ==
  {f \in DOMAIN e.wraps : /\ e.wraps[f].place \in {"field", "item"}
                          /\ Sensitivity[e.wraps[f].sens] >= Sensitivity[min]}

Marked ==
  [v \in {"{'a':1}", "{'a':'a'}", "{obj}", "[{obj}]"} |->
     IF v = "{obj}" THEN "{obj#}" ELSE IF v = "[{obj}]" THEN "[{obj#}]" ELSE "{'a':'#'}"]

\* The value with its marker: that of an item hides the item only.
WithMarker(e, f) ==
  IF e.wraps[f].place = "field" THEN Marker[e.wraps[f].sens]
  ELSE IF e.payload[f] \in DOMAIN Marked THEN Marked[e.payload[f]] ELSE "['#']"

\* Mutant of StillWrapped: what is below the threshold is unwrapped.
Unwrapped(e, due, min) == {f \in DOMAIN e.wraps \ due : e.wraps[f].place \notin {"field", "item"}}

\* What stays a Redactable: below the threshold, or in a mapping or a set.
StillWrapped(e, due, min) == DOMAIN e.wraps \ due

\* Mutant of Stamp: the three keys are always added.
StampAlways(e, due) == Cardinality(due) + 1

\* "__redacted_at", "__redacted_by", "__redaction_count"
Stamp(e, due) == IF due = {} THEN e.count ELSE Cardinality(due)

\* RedactionPolicy(min).apply(): checksum and signature are kept.
Apply(e, min) ==
  LET due == Due(e, min)
  IN  [e EXCEPT !.payload = [f \in DOMAIN e.payload |->
                               IF f \in due THEN WithMarker(e, f) ELSE e.payload[f]],
                !.wraps = [f \in StillWrapped(e, due, min) |-> e.wraps[f]],
                !.count = Stamp(e, due)]

----------------------------------------------------------------------------
\* Signing, JSON, and the pydantic model.

Serialisable(e) == e.wraps = NoWraps

Content(e) == [payload |-> e.payload, count |-> e.count]

\* sign(), which raises if the payload cannot be written as JSON.
Seal(e) == [e EXCEPT !.seal = Content(e)]

\* verify() with the key of the signature.
Verifies(e) == e.seal = Content(e)

\* from_json(to_json()): the keys of a dictionary come back as texts.
Reread(v) == IF v = "intkeys" THEN "strkeys" ELSE v
ThroughJson(e) == [e EXCEPT !.payload = [f \in DOMAIN e.payload |-> Reread(e.payload[f])]]

\* EventModel.from_event(e).to_event(): arguments that are None are left out.
ThroughModel(e) == [Event(e.payload, e.wraps, e.env) EXCEPT !.count = e.count, !.seal = e.seal]

----------------------------------------------------------------------------
\* The exporters.

\* _ts_to_unix_nano() of both HTTP exporters.
NoTime(e) == e.env.timestamp # "good"

\* A token_usage whose numbers are read with int() although one is wrapped or
\* has been replaced by a marker.
NoTokens(e) ==
  /\ "token_usage" \in DOMAIN e.payload
  /\ \/ e.payload["token_usage"] = "{obj#}"
     \/ "token_usage" \in DOMAIN e.wraps /\ e.wraps["token_usage"].place = "item"

\* to_otlp_span(), where the event has a trace: int(float(duration_ms) * 1e6) is
\* guarded against TypeError and ValueError, not against the OverflowError of an
\* infinite duration.
OtlpRaises(e) ==
  \/ NoTime(e)
  \/ NoTokens(e)
  \/ /\ e.env.trace # "none"
     /\ "duration_ms" \in DOMAIN e.payload \ DOMAIN e.wraps
     /\ e.payload["duration_ms"] = "inf"

\* to_dd_span(): int(payload.get("duration_ms", 0) * 1e6) is not guarded.
DatadogRaises(e) ==
  \/ NoTime(e)
  \/ e.env.trace = "bad"
  \/ /\ "duration_ms" \in DOMAIN e.payload
     /\ "duration_ms" \in DOMAIN e.wraps \/ e.payload["duration_ms"] \notin Finite

\* The bridge catches a trace id that is not hexadecimal: the span has no parent.
OtelRaises(e) == NoTokens(e)

\* What an exporter writes of a field.  The attributes of OTLP hold str() of a
\* value, which for a Redactable is "<Redactable...>"; Datadog takes texts and
\* numbers only, the bridge also what a dictionary has of them.
OtlpWrites(e, f) == IF f \in DOMAIN e.wraps THEN "placeholder" ELSE e.payload[f]

DatadogWrites(e, f) ==
  IF f \notin DOMAIN e.wraps /\ e.payload[f] \in Texts \cup Numbers THEN e.payload[f]
  ELSE "nothing"

OtelWrites(e, f) ==
  IF f \notin DOMAIN e.wraps /\ e.payload[f] \notin Lists \cup PartLists THEN e.payload[f]
  ELSE "nothing"

Exporters == {"json", "otlp", "datadog", "otel"}

ExportRaises(x, e) ==
  CASE x = "json" -> ~Serialisable(e)
    [] x = "otlp" -> OtlpRaises(e)
    [] x = "datadog" -> DatadogRaises(e)
    [] x = "otel" -> OtelRaises(e)

Shown(x, e, f) ==
  CASE ExportRaises(x, e) -> "nothing"
    [] x = "otlp" /\ ~OtlpRaises(e) -> OtlpWrites(e, f)
    [] x = "datadog" /\ ~DatadogRaises(e) -> DatadogWrites(e, f)
    [] x = "otel" /\ ~OtelRaises(e) -> OtelWrites(e, f)
    [] x = "json" /\ Serialisable(e) -> e.payload[f]
=============================================================================
