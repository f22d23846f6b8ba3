\* passwd with its input on a terminal, and the smokes of sudo and doas.
SPECIFICATION SmokeSpec
CONSTANTS
  root = root
  lab = lab
  Users = {root, lab}
  old = old
  fresh = fresh
  Words = {old, fresh}
  InitDb <- MCInitDb
  Inputs = {"tty"}
  Scripts <- MCScripts
  MaxOther = 2
  Programs = {"passwd", "sudo", "doas"}
  tester = lab
  good = fresh
  bad = old
  TesterGid = 100
  GroupFiles <- MCGroupFiles
  GroupsMax = 3
  MaxSpins = 7
  CaptureMax = 7
INVARIANTS TypedAheadWorks ChangeIsEntered
PROPERTY SmokeReturns
CHECK_DEADLOCK FALSE
