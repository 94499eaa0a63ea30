SPECIFICATION FairSpec
CONSTANTS
  NChecks = 3
  Kind <- BatchedKind
  Severity <- BatchedSeverity
  Conditional <- BatchedConditional
  BatchKey <- BatchedKey
  NoKey = "-"
  BatchSize = 2
  MaxConcurrency = 2
  FailFast = FALSE
  CallbackMayRaise = TRUE
INVARIANTS
  VerdictsAreMeasured
  QuietOnExit
PROPERTIES
  Terminates
  ImplementsLedger
