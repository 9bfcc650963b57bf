SPECIFICATION FairSpec
CONSTANTS
  NULL = NULL
  g1 = g1
  Name <- MCName
  Path <- MCPath
  Inode <- MCInode
  NoInode <- MCNoInode
  GuestInode = {g1}
  Content = {"A", "B"}
  Empty = ""
  Mode <- MCMode
  Masked <- MCMasked
  LinkTarget <- MCLinkTarget
  GuestOps = {"create", "link", "unlink", "rename"}
  MaxGuestOps = 1
  InitEntry <- MCInitEntry
  InitInode <- MCInitInode
  Request <- MCRequest
  NameOrder <- MCNameOrder
  NewInode <- MCNew
  RootMode = "0755"
  TempMode = "0700"
  Faults = {"lstat", "mkdir", "readdir", "reflink", "chmod"}
  MaxFaults = 1
INVARIANT TypeOK
INVARIANT OkIsTreeCopy
INVARIANT TreeVerdictIsRight
INVARIANT ModesRestored
PROPERTY ChangesOnlyOwn
PROPERTY WalkEnds
