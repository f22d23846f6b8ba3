\* Two updating processes and one login.
SPECIFICATION Spec
CONSTANTS
  Procs = {p1, p2}
  Readers = {r1}
  root = root
  lab = lab
  Users = {root, lab}
  h1 = h1
  h2 = h2
  Hashes = {h1, h2}
  tail0 = tail0
  tail1 = tail1
  tail2 = tail2
  NoTail = tail0
  DefaultTail = tail1
  Tails = {tail0, tail1}
  Inodes = {i1, i2, i3}
  NoInode = NoInode
  NoProc = NoProc
  NoHash = NoHash
  NoUser = NoUser
  MaxTries = 1
  InitFiles <- MCOneLine
SYMMETRY Symmetry
INVARIANT LiveFileNotWritten
PROPERTY ImplementsAtomicShadow
