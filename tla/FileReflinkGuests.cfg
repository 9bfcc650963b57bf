SPECIFICATION FairSpec
CONSTANTS
  w1 = w1
  w2 = w2
  w3 = w3
  g1 = g1
  g2 = g2
  NULL = NULL
  Worker = {w1, w2}
  Request <- FifoRequest
  Faults = {"lstat", "create", "clone", "chmod"}
  MaxCrashes = 1
  GuestOps = {"unlink", "rename", "link"}
  MaxGuestOps = 1
  Path <- FifoPath
  Name <- MCName
  Inode <- MCInode
  NoInode <- MCNoInode
  GuestInode <- OneGuest
  Content <- MCContent
  Empty = ""
  Mode <- MCMode
  Masked <- MCMasked
  LinkTarget <- MCLinkTarget
  InitEntry <- MCInitEntry
  InitInode <- MCInitInode
PROPERTY EveryRequestEnds
INVARIANT FailLeavesNothing
INVARIANT WaitsForNewcomer
PROPERTY WritesOnlyOwnFile
