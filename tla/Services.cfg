SPECIFICATION ServicesSpec
CONSTANTS
  job = job
  enabler = enabler
  disabler = disabler
  resetter = resetter
  Processes = {job, enabler, disabler, resetter}
  Role <- Roles
  Override <- Overrides
  Keyed = {job}
  Commands = {"init", "debug", "profile", "generate", "report", "baseline", "diff", "run", "changes", "monitor", "redact"}
  EngineEvents = 2
  QueueSize = 2
CHECK_DEADLOCK FALSE
INVARIANTS
  DeliveryIsHonest
  CommandsEndInOrder
  RecordedOutcomeIsOperational
PROPERTIES
  RetiredIdsStayRetired
  ProcessesEnd
