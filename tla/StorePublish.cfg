SPECIFICATION Spec
CONSTANTS
  a = a
  b = b
  c = c
  pruner = pruner
  deleter = deleter
  reader = reader
  Nobody = Nobody
  NRuns = 3
  Publishers = {a, b, c}
  RunOf <- Distinct
  Redacted = {2}
  Pruners = {pruner}
  Keep = 1
  Deleters = {}
  Readers = {reader}
  Faults = {"error"}
CHECK_DEADLOCK FALSE
INVARIANTS
  ConcurrentRunsFormChain
  ChangesAgainstPredecessor
PROPERTIES
  ReaderOpensSelected
