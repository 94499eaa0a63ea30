SPECIFICATION FairSpec
CONSTANTS
  a = a
  b = b
  c = c
  permissive = permissive
  strict = strict
  Nobody = Nobody
  Calls = {a, b, c, permissive, strict}
  Queries = {"people", "absent"}
  QueryOf <- Texts
  Permissive = {permissive}
  Timed = {a, b, strict}
  InTransaction = {b}
  Reads <- ReadKeys
  MaxSize = 1
CHECK_DEADLOCK FALSE
INVARIANTS
  GuardIsSound
  NobodyWaitsInVain
PROPERTIES
  EveryCallEnds
