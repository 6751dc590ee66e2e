----------------------------- MODULE Namespaces -----------------------------
(***************************************************************************)
(* The payload classes, one definition each.                               *)
(***************************************************************************)
EXTENDS Payloads

CacheHitPayload == [cache_key_hash |-> Name, cache_store |-> Name, similarity_score |-> MaybeRatio,
  cached_event_id |-> Unchecked, ttl_seconds |-> MaybeCount]
CacheMissPayload == [cache_key_hash |-> Name, cache_store |-> Name, reason |-> Unchecked]
CacheEvictedPayload == [cache_key_hash |-> Name, cache_store |-> Name, reason |-> Name,
  evicted_count |-> FromOne]

CostRecordedPayload == [span_event_id |-> Name, model_name |-> Name, provider |-> Name,
  prompt_tokens |-> Count, completion_tokens |-> Count, total_tokens |-> Count,
  cost_usd |-> Amount, currency |-> NameOr, budget_id |-> Unchecked]
BudgetThresholdPayload == [budget_id |-> Name, threshold_type |-> Choice, threshold_usd |-> Amount,
  current_spend_usd |-> Amount, percentage_used |-> Amount, org_id |-> Unchecked]

DiffComparisonPayload == [source_id |-> Name, target_id |-> Name, diff_type |-> Name,
  similarity_score |-> MaybeRatio, source_text |-> Unchecked, target_text |-> Unchecked,
  diff_result |-> MaybeDict]
DiffReportPayload == [report_id |-> Name, comparison_event_id |-> Name, format |-> Name,
  export_path |-> Unchecked, export_url |-> Unchecked]

EvalScenarioPayload == [scenario_id |-> Name, scenario_name |-> Name, status |-> Choice,
  score |-> MaybeNumber, metrics |-> Metrics, baseline_score |-> MaybeNumber,
  duration_ms |-> MaybeAmount]
EvalRegressionPayload == [scenario_id |-> Name, scenario_name |-> Name, current_score |-> Number,
  baseline_score |-> Number, regression_delta |-> Number, threshold |-> Number,
  metrics |-> Metrics]

ValidationPassedPayload == [validator_id |-> Name, format_type |-> Name, attempt |-> FromOne,
  duration_ms |-> MaybeAmount]
FenceValidationFailedPayload == [validator_id |-> Name, format_type |-> Name, errors |-> NamedList,
  attempt |-> FromOne, retryable |-> FlagOr("True")]
RetryTriggeredPayload == [validator_id |-> Name, attempt |-> Positive, max_attempts |-> Positive,
  previous_error |-> Unchecked, strategy |-> ChoiceOr]

GuardBlockedPayload == [policy_id |-> Name, policy_name |-> Name, input_hash |-> Name,
  violation_types |-> NamedList, action |-> Action, severity |-> ChoiceOr]
GuardFlaggedPayload == [policy_id |-> Name, policy_name |-> Name, output_hash |-> Name,
  flag_types |-> NamedList, action |-> Action, severity |-> ChoiceOr]

InspectIssueSummary == [issue_type |-> Name, severity |-> Choice, description |-> Name]
InspectReportPayload == [report_id |-> Name, span_id |-> Name, model |-> Name,
  issues |-> Issues, overall_severity |-> Choice,
  score |-> MaybeRatio, inspector_version |-> MaybeText]

PromptSavedPayload == [prompt_id |-> Name, version |-> Name, environment |-> Name,
  template_hash |-> Name, author |-> Unchecked, tags |-> MaybeList]
PromptPromotedPayload == [prompt_id |-> Name, version |-> Name, from_environment |-> Name,
  to_environment |-> Name, promoted_by |-> Unchecked]
PromptApprovedPayload == [prompt_id |-> Name, version |-> Name, approved_by |-> Name,
  approval_note |-> Unchecked]
PromptRolledBackPayload == [prompt_id |-> Name, from_version |-> Name, to_version |-> Name,
  reason |-> Unchecked, rolled_back_by |-> Unchecked]
PromptRejectedPayload == [prompt_id |-> Name, version |-> Name, rejected_by |-> Name,
  rejection_reason |-> Name]
PromptRenderedPayload == [prompt_id |-> Name, version |-> Name, environment |-> Name,
  variable_count |-> Count, render_duration_ms |-> MaybeAmount, output_hash |-> MaybeText]

PIIDetectedPayload == [field_path |-> Name, pii_types |-> NamedList,
  confidence |-> Ratio, redacted |-> FlagOr("False")]
PIIRedactedPayload == [field_path |-> Name, pii_types |-> NamedList, method |-> Name,
  redacted_by |-> Unchecked]
ScanCompletedPayload == [scanned_fields |-> Count, pii_detected_count |-> Count,
  pii_redacted_count |-> Count, duration_ms |-> MaybeAmount, policy_id |-> Unchecked]

TemplateRenderedPayload == [template_id |-> Name, template_version |-> Name,
  variable_count |-> Count, render_duration_ms |-> MaybeAmount, output_length |-> MaybeCount]
VariableMissingPayload == [template_id |-> Name, missing_variables |-> NamedList,
  required_variables |-> NamedList]
TemplateValidationFailedPayload == [template_id |-> Name, validation_errors |-> NamedList,
  validator |-> Unchecked]

TokenUsage == [prompt_tokens |-> Count, completion_tokens |-> Count, total_tokens |-> Count]
ModelInfo == [name |-> Name, provider |-> Name, version |-> MaybeText]
ToolCall == [tool_name |-> Name, tool_input |-> DictField, tool_output |-> MaybeDict,
  duration_ms |-> MaybeAmount, status |-> ChoiceOr]

SpanCompletedPayload == [span_name |-> Name, status |-> Choice, duration_ms |-> Amount,
  model |-> MaybeModel, token_usage |-> MaybeUsage, tool_calls |-> MaybeCalls,
  error |-> Unchecked, cost_usd |-> MaybeAmount]

Classes == [
  CacheHit |-> CacheHitPayload, CacheMiss |-> CacheMissPayload, CacheEvicted |-> CacheEvictedPayload,
  CostRecorded |-> CostRecordedPayload, BudgetThreshold |-> BudgetThresholdPayload,
  DiffComparison |-> DiffComparisonPayload, DiffReport |-> DiffReportPayload,
  EvalScenario |-> EvalScenarioPayload, EvalRegression |-> EvalRegressionPayload,
  ValidationPassed |-> ValidationPassedPayload,
  FenceValidationFailed |-> FenceValidationFailedPayload, RetryTriggered |-> RetryTriggeredPayload,
  GuardBlocked |-> GuardBlockedPayload, GuardFlagged |-> GuardFlaggedPayload,
  InspectIssue |-> InspectIssueSummary, InspectReport |-> InspectReportPayload,
  PromptSaved |-> PromptSavedPayload, PromptPromoted |-> PromptPromotedPayload,
  PromptApproved |-> PromptApprovedPayload, PromptRolledBack |-> PromptRolledBackPayload,
  PromptRejected |-> PromptRejectedPayload, PromptRendered |-> PromptRenderedPayload,
  PIIDetected |-> PIIDetectedPayload, PIIRedacted |-> PIIRedactedPayload,
  ScanCompleted |-> ScanCompletedPayload, TemplateRendered |-> TemplateRenderedPayload,
  VariableMissing |-> VariableMissingPayload,
  TemplateValidationFailed |-> TemplateValidationFailedPayload, TokenUsage |-> TokenUsage,
  ModelInfo |-> ModelInfo, ToolCall |-> ToolCall, SpanCompleted |-> SpanCompletedPayload]

Class == DOMAIN Classes
Fields(c) == DOMAIN Classes[c]

\* An object of the class with a value in each field, accepted or not.
ObjectsOf(c) == [class : {c}, object : [Fields(c) -> Values]]

\* The checks that compare fields.
Coherent(c, o) ==
  CASE c = "TokenUsage" ->
         Twice[o.total_tokens] >= Twice[o.prompt_tokens] + Twice[o.completion_tokens]
    [] c = "RetryTriggered" -> Twice[o.attempt] <= Twice[o.max_attempts]
    [] c = "PromptPromoted" -> o.from_environment # o.to_environment
    [] c = "PromptRolledBack" -> o.from_version # o.to_version
    [] c = "ScanCompleted" ->
         /\ Twice[o.pii_redacted_count] <= Twice[o.pii_detected_count]
         /\ Twice[o.pii_detected_count] <= Twice[o.scanned_fields]
    [] c = "VariableMissing" -> Items[o.missing_variables] \subseteq Items[o.required_variables]
    [] OTHER -> TRUE

\* The constructor, on an object with every field given.
Constructs(c, o) == (\A f \in Fields(c) : o[f] \in Classes[c][f].takes) /\ Coherent(c, o)

\* Mutant of Given: optional fields are dropped if they are falsy, not only None.
GivenIfTrue(c, o) == {f \in Fields(c) : Classes[c][f].default = None => BoolOf[o[f]] = "True"}

\* The fields of the dictionary: optional ones that are None are left out.
Given(c, o) == {f \in Fields(c) : Classes[c][f].default = None => o[f] # None}

\* to_dict() of the nested objects.
Dictionary(v) ==
  CASE v = "obj" -> "{obj}" [] v = "obj#" -> "{obj#}"
    [] v = "[obj]" -> "[{obj}]" [] v = "[obj#]" -> "[{obj#}]" [] OTHER -> v

ToDict(c, o) == [f \in Given(c, o) |-> Dictionary(o[f])]

\* from_dict(): the object, or the empty function if it raises.
Failed == [f \in {} |-> Raised]

FromDict(c, d) ==
  LET o == [f \in Fields(c) |->
              IF f \in DOMAIN d THEN Classes[c][f].reads[d[f]] ELSE Classes[c][f].absent]
  IN  IF Constructs(c, o) THEN o ELSE Failed
=============================================================================
