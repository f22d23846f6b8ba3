\* Two adders and a passwd process.
SPECIFICATION AdminSpec
CONSTANTS
  Procs = {p1}
  Readers = {}
  root = root
  la = la
  lab = lab
  bo = bo
  Users = {root, lab}
  h1 = h1
  h2 = h2
  Hashes = {h1, h2}
  tail0 = tail0
  tail1 = tail1
  NoTail = tail0
  DefaultTail = tail1
  Tails = {tail0, tail1}
  Inodes = {i1, i2}
  NoInode = NoInode
  NoProc = NoProc
  NoHash = NoHash
  NoUser = NoUser
  MaxTries = 1
  InitFiles <- MCShadow
  Adders = {a1, a2}
  ValidUsers = {lab}
  FirstUid = 2
  MaxAccounts = 2
  Unreadable = {"passwd"}
  InitPasswd <- MCPasswd
  Groups <- MCOneGroup
  GroupFiles = {g1, g2, g3}
  NoFile = NoFile
  InitGroup <- MCNobody
  Within <- MCWithin
SYMMETRY Symmetry
INVARIANTS AdminTypeOK NamesNested
PROPERTIES AccountIsStable HashKeptByAdders
