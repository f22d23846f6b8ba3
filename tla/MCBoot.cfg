\* Three images, one run of keymap at a time, one fault.
SPECIFICATION FairSpec
CONSTANTS
  Tools = {t1}
  Console = console
  Answers <- MCAnswers
  Inodes = {i1, i2, i3}
  NoInode = NoInode
  MaxFaults = 1
  MaxBoots = 2
  Images <- MCImages
INVARIANTS BootTypeOK SuccessIsStored LoginHasStoredLayout HomeIsReachable
PROPERTIES ShutdownKeepsFiles RecoveryKeepsDisk BootEnds
CHECK_DEADLOCK FALSE
