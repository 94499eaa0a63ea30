SPECIFICATION Spec
CONSTANTS
  NChecks = 6
  Kind <- StoppingKind
  Severity <- StoppingSeverity
  Conditional <- StoppingConditional
  BatchKey <- StoppingKey
  NoKey = "-"
  BatchSize = 2
  MaxConcurrency = 4
  FailFast = TRUE
  CallbackMayRaise = TRUE
INVARIANTS
  StopsAreExact
