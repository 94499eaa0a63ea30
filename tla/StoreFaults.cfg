SPECIFICATION FairSpec
CONSTANTS
  a = a
  b = b
  c = c
  pruner = pruner
  deleter = deleter
  reader = reader
  Nobody = Nobody
  NRuns = 2
  Publishers = {a, b, c}
  RunOf <- Retried
  Redacted = {}
  Pruners = {pruner}
  Keep = 1
  Deleters = {deleter}
  Readers = {}
  Faults = {"error", "rollback", "crash"}
CHECK_DEADLOCK FALSE
INVARIANTS
  LatestMatchesHistory
PROPERTIES
  LatestNeverLost
  HistoryIsKept
  EveryPublisherEnds
