CONSTANTS
  Thread = {t1, t2}
  Client = {t1, t2}
  Type = {known, unknown}
  Registered = {known}
  Policy = {p1, p2}
  Strict = {p2}
  Rule = {r}
  RefusedBy <- MCRefusedBy
  None = None
  Nothing = Nothing
  Tool = {tool}
  Version <- MCVersion
  Installed <- MCInstalled
  Spelling <- MCSpelling
  Strip <- MCStrip
  MaxCalls = 4
SPECIFICATION Spec
CHECK_DEADLOCK FALSE
INVARIANTS ReportSound
PROPERTY ImplementsGatekeeper
