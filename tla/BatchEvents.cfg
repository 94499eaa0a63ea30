SPECIFICATION Spec
CONSTANTS
  NChecks = 3
  Kind <- BatchedKind
  Severity <- BatchedSeverity
  Conditional <- BatchedConditional
  BatchKey <- BatchedKey
  NoKey = "-"
  BatchSize = 2
  MaxConcurrency = 1
  FailFast = FALSE
  CallbackMayRaise = FALSE
INVARIANTS
  ReturnHasRunFinished
