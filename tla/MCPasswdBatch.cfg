\* passwd with its input on a pipe.
SPECIFICATION Spec
CONSTANTS
  root = root
  lab = lab
  Users = {root, lab}
  old = old
  fresh = fresh
  Words = {old, fresh}
  InitDb <- MCInitDb
  Inputs = {"pipe"}
  Scripts <- MCScripts
  MaxOther = 0
INVARIANT BatchModeWorks
CHECK_DEADLOCK FALSE
