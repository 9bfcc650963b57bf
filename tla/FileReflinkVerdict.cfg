SPECIFICATION Spec
CONSTANTS
  w1 = w1
  w2 = w2
  w3 = w3
  g1 = g1
  g2 = g2
  NULL = NULL
  Worker = {w1}
  Request <- AnyRequest
  Faults = {}
  MaxCrashes = 0
  GuestOps = {}
  MaxGuestOps = 0
  Path <- FullPath
  Name <- MCName
  Inode <- MCInode
  NoInode <- MCNoInode
  GuestInode <- MCGuestInode
  Content <- MCContent
  Empty = ""
  Mode <- MCMode
  Masked <- MCMasked
  LinkTarget <- MCLinkTarget
  InitEntry <- MCInitEntry
  InitInode <- MCInitInode
INVARIANT VerdictIsRight
INVARIANT BlameIsRight
