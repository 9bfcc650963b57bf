SPECIFICATION Spec
CONSTANTS
  w1 = w1
  w2 = w2
  w3 = w3
  g1 = g1
  g2 = g2
  NULL = NULL
  Worker = {w1}
  Request <- RetryRequest
  Faults = {"clone"}
  MaxCrashes = 0
  GuestOps = {"create", "unlink"}
  MaxGuestOps = 2
  Path <- SmallPath
  Name <- MCName
  Inode <- MCInode
  NoInode <- MCNoInode
  GuestInode <- MCGuestInode
  Content <- MCContent
  Empty = ""
  Mode <- MCMode
  Masked <- MCMasked
  LinkTarget <- MCLinkTarget
  InitEntry <- MCInitEntry
  InitInode <- MCInitInode
PROPERTY RemovesOnlyOwn
