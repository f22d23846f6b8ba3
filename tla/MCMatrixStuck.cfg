\* A case whose worker the kernel may never finish after the kill.
SPECIFICATION KillSpec
CONSTANTS
  a = a
  b = b
  Bytes = {a, b}
  NotFoundText = "applet not found"
  NotImplText = "ENOSYS"
  Needles <- MCNoNeedle
  WantEcs = {0}
  Exits = {0}
  StoreMax = 1
  CaseTimeout = 1
  ExitGrace = 1
  DrainTimeout = 1
  LastChances = 1
  MaxOut = 1
PROPERTY StuckZombieCannotHang
CHECK_DEADLOCK FALSE
