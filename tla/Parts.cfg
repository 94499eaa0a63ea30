SPECIFICATION PartsSpec
CONSTANTS
  MaxChecks = 4
  Values = {"a", "b"}
  Expectations <- SomeExpectations
  Limit = 3
  MaxStream = 4
  Prime = 5
  Writers = {"v", "w"}
  Workers = {1, 2}
  Refs = {0, 2}
  Horizon = 3
  NoFile = "none"
  Names = {1, 2}
  MaxCount = 2
  Ids = {"a", "b"}
  Bad = "bad"
  MaxRequested = 2
  MaxBatch = 3
  MaxSnapshots = 2
  Busy = {0, 1}
CHECK_DEADLOCK FALSE
INVARIANTS
  EarlyVerdictIsFinal
  EvidenceIsWhole
  SamplesAreFair
  GroupsAreComponents
  RunSeesOneBaseline
  ProfileHidesNothing
  SentAsDisclosed
  SuiteIsExact
  QueriesFindViolations
  ProfileAgreesWithLive
  DiffListsWhatDrifted
PROPERTIES
  ScoresAreHonest
  NamesKeepTheirMeaning
