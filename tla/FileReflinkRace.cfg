SPECIFICATION Spec
CONSTANTS
  w1 = w1
  w2 = w2
  w3 = w3
  g1 = g1
  g2 = g2
  NULL = NULL
  Worker = {w1, w2}
  Request <- RaceRequest
  Faults = {"join", "lstat", "open", "create", "clone", "chmod", "close", "remove"}
  MaxCrashes = 1
  GuestOps = {"create", "link"}
  MaxGuestOps = 1
  Path <- SmallPath
  Name <- MCName
  Inode <- MCInode
  NoInode <- MCNoInode
  GuestInode <- MCGuestInode
  Content <- MCContent
  Empty = ""
  Mode <- MCMode
  Masked <- MCMasked
  LinkTarget <- MCLinkTarget
  InitEntry <- MCInitEntry
  InitInode <- MCInitInode
SYMMETRY Symmetry
INVARIANT TypeOK
INVARIANT OkInPlace
INVARIANT OkIsCopy
INVARIANT EexistIsTruthful
PROPERTY RemovesOnlyOwn
PROPERTY ImplementsContract
