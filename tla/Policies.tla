------------------------------ MODULE Policies ------------------------------
(***************************************************************************)
(* The policies that make payloads: FencePolicy.retry_sequence(), one      *)
(* attempt per step, and what GuardPolicy and TemplatePolicy answer.       *)
(* The validator, the checkers and output_fn are the application's.        *)
(***************************************************************************)
EXTENDS Namespaces

CONSTANTS MaxRetries,  \* the bounds on max_retries that are tried
          Nothing

ASSUME PoliciesAssumption == MaxRetries \in Nat /\ MaxRetries < Len(Numeral)

VARIABLE fence         \* the call of retry_sequence(): its max_attempts, the
                       \* calls of output_fn, the last result, retry_events

\* The verdicts a validator may give; it does not know which attempt it sees.
Verdict ==
  [class : {"ValidationPassed"},
   object : [validator_id : {"'a'"}, format_type : {"'a'"}, attempt : Numerals,
             duration_ms : {None}]]
  \cup
  [class : {"FenceValidationFailed"},
   object : [validator_id : {"'a'"}, format_type : {"'a'"}, errors : {"['a']"},
             attempt : Numerals, retryable : Flags]]

Idle == [status |-> "idle", max |-> 1, calls |-> 0, result |-> Nothing, retries |-> <<>>]

FenceInit == fence = Idle

\* FencePolicy(validator, max_retries=n).retry_sequence(output_fn)
RetrySequence(n) ==
  /\ fence.status = "idle"
  /\ fence' = [fence EXCEPT !.status = "running", !.max = n + 1]

\* validate(): the result, with the number of this attempt.
Renumbered(verdict, attempt) == [verdict EXCEPT !.object.attempt = Numeral[attempt]]

Retry(verdict, attempt) ==
  [class |-> "RetryTriggered",
   object |-> [validator_id |-> verdict.object.validator_id, attempt |-> Numeral[attempt + 1],
               max_attempts |-> Numeral[fence.max], previous_error |-> "'a'",
               strategy |-> "'a'"]]

\* Mutant of Again: a failure on the last attempt is retried as well.
AgainAlways(verdict, attempt) ==
  verdict.class = "FenceValidationFailed" /\ attempt <= fence.max /\ verdict.object.retryable = "True"

\* One more attempt follows.
Again(verdict, attempt) ==
  verdict.class = "FenceValidationFailed" /\ attempt < fence.max /\ verdict.object.retryable = "True"

\* The body of the loop.
Attempt(verdict) ==
  LET attempt == fence.calls + 1
      again == Again(verdict, attempt)
  IN  /\ fence.status = "running"
      /\ fence' = [fence EXCEPT
           !.calls = attempt,
           !.result = Renumbered(verdict, attempt),
           !.retries = IF again THEN Append(@, Retry(verdict, attempt)) ELSE @,
           !.status = IF again THEN "running" ELSE "done"]

\* output_fn or the validator raises: the retries so far are not returned.
AttemptRaises ==
  /\ fence.status = "running"
  /\ fence' = [fence EXCEPT !.status = "raised", !.calls = @ + 1, !.result = Nothing,
                            !.retries = <<>>]

\* What the call has returned.
Returned ==
  IF fence.status = "done"
  THEN {fence.result} \cup {fence.retries[i] : i \in DOMAIN fence.retries} ELSE {}

----------------------------------------------------------------------------
\* GuardPolicy without a checker.

Unconfigured(class, hash, subject, listed) ==
  [class |-> class,
   object |-> [f \in Fields(class) |->
                 IF f = hash THEN subject ELSE IF f = listed THEN "['a']" ELSE "'a'"]]

\* check_input() and check_output() with fail_closed: the payloads made; an
\* empty hash is refused by their constructors.
GuardMakes ==
  {Unconfigured("GuardBlocked", "input_hash", h, "violation_types") : h \in {"''", "'a'"}}
    \cup {Unconfigured("GuardFlagged", "output_hash", h, "flag_types") : h \in {"''", "'a'"}}

----------------------------------------------------------------------------
\* TemplatePolicy, with a list of required variables.

ListWith(items) == CHOOSE l \in {"[]", "['a']", "['b']", "['a','b']"} : Items[l] = items

\* validate_variables(): nothing if no variable is missing.
ValidateVariables(required, provided) ==
  LET missing == Items[required] \ provided
  IN  IF missing = {} THEN {}
      ELSE {[class |-> "VariableMissing",
             object |-> [template_id |-> "'a'", missing_variables |-> ListWith(missing),
                         required_variables |-> required]]}

Written(n) == IF n = 0 THEN "0" ELSE Numeral[n]

\* validate_output(): the validator's error, where it gives one.
ValidateOutput(required, error) ==
  IF error # "''"
  THEN {[class |-> "TemplateValidationFailed",
         object |-> [template_id |-> "'a'", validation_errors |-> "['a']", validator |-> "'a'"]]}
  ELSE {[class |-> "TemplateRendered",
         object |-> [template_id |-> "'a'", template_version |-> "'a'",
                     variable_count |-> Written(Cardinality(Items[required])),
                     render_duration_ms |-> None, output_length |-> "1"]]}

\* What a template with these required variables answers.
TemplateWith(required) ==
  (UNION {ValidateVariables(required, provided) : provided \in SUBSET {"'a'", "'b'"}})
    \cup (UNION {ValidateOutput(required, error) : error \in {"''", "'a'"}})

TemplateMakes == UNION {TemplateWith(required) : required \in {"[]", "['a']", "['a','b']"}}
=============================================================================
