\* One adder at a time, abandoned and started again; it stops when every name is taken.
SPECIFICATION AdminSpec
CONSTANTS
  Procs = {}
  Readers = {}
  root = root
  la = la
  lab = lab
  bo = bo
  Users = {root, la, lab, bo}
  h1 = h1
  h2 = h2
  Hashes = {h1}
  tail0 = tail0
  tail1 = tail1
  NoTail = tail0
  DefaultTail = tail1
  Tails = {tail0, tail1}
  Inodes = {i1, i2}
  NoInode = NoInode
  NoProc = NoProc
  NoHash = NoHash
  NoUser = NoUser
  MaxTries = 1
  InitFiles <- MCShadow
  Adders = {a1}
  ValidUsers = {la, lab, bo}
  FirstUid = 2
  MaxAccounts = 4
  Unreadable = {"group"}
  InitPasswd <- MCPasswd
  Groups <- MCGroups
  GroupFiles = {g1, g2}
  NoFile = NoFile
  InitGroup <- MCNobody
  Within <- MCWithin
INVARIANTS CreatedIsComplete UidsUnique
PROPERTY MembersStay
CHECK_DEADLOCK FALSE
