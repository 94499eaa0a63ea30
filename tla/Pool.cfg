SPECIFICATION Spec
CONSTANTS
  NChecks = 5
  Kind <- MixedKind
  Severity <- MixedSeverity
  Conditional <- MixedConditional
  BatchKey <- MixedKey
  NoKey = "-"
  BatchSize = 2
  MaxConcurrency = 2
  FailFast = FALSE
  CallbackMayRaise = FALSE
INVARIANTS
  NothingOmitted
  ContractAccepts
  ReasonsAreExact
  BudgetIsNeverHard
