\* One case with each needle, under fair scheduling.
SPECIFICATION FairSpec
CONSTANTS
  a = a
  b = b
  Bytes = {a, b}
  NotFoundText = "applet not found"
  NotImplText = "ENOSYS"
  Needles <- MCNeedles
  WantEcs = {0, 1}
  Exits = {0, 1}
  StoreMax = 1
  CaseTimeout = 1
  ExitGrace = 2
  DrainTimeout = 1
  LastChances = 1
  MaxOut = 3
INVARIANTS TypeOK FoundIsThere OutputVerdictIsFinal StatusVerdictIsEarned
PROPERTIES GraceIsKept CaseReturns
CHECK_DEADLOCK FALSE
