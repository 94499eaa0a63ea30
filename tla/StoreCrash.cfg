SPECIFICATION Spec
CONSTANTS
  a = a
  b = b
  c = c
  pruner = pruner
  deleter = deleter
  reader = reader
  Nobody = Nobody
  NRuns = 3
  Publishers = {a, b, c}
  RunOf <- Distinct
  Redacted = {}
  Pruners = {}
  Keep = 1
  Deleters = {}
  Readers = {}
  Faults = {"crash"}
CHECK_DEADLOCK FALSE
INVARIANTS
  ConcurrentRunsFormChain
