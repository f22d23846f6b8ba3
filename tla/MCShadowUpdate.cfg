\* Two updating processes under fair scheduling, over a file with a duplicated
\* user.
SPECIFICATION FairSpec
CONSTANTS
  Procs = {p1, p2}
  Readers = {}
  root = root
  lab = lab
  Users = {root, lab}
  h1 = h1
  h2 = h2
  Hashes = {h1, h2}
  tail0 = tail0
  tail1 = tail1
  tail2 = tail2
  NoTail = tail0
  DefaultTail = tail1
  Tails = {tail0, tail1, tail2}
  Inodes = {i1, i2}
  NoInode = NoInode
  NoProc = NoProc
  NoHash = NoHash
  NoUser = NoUser
  MaxTries = 1
  InitFiles <- MCTwoLines
INVARIANTS TypeOK Inv
PROPERTIES UpdateIsRewrite CallReturns
