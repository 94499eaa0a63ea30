SPECIFICATION FairSpec
CONSTANTS
  Callers = {"p", "q", "r"}
  Limited = {"p"}
  Servers <- SomeServers
  NoOne = NoOne
CHECK_DEADLOCK FALSE
INVARIANTS
  ProbesAreSound
PROPERTIES
  EveryProbeEnds
