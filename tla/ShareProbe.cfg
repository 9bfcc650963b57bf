SPECIFICATION Spec
CONSTANTS
  NULL = NULL
  d1 = d1
  d2 = d2
  g1 = g1
  Daemon = {d1, d2}
  ShareRoot <- MCShareRoot
  Cwd <- MCCwd
  SrcName <- MCSrcName
  DstName <- MCDstName
  NewInode <- MCNew
  TempMode = "0600"
  Probe = "probe"
  Faults = {"createTemp", "write", "close", "reflink"}
  MaxFaults = 1
  Name <- MCName
  Path <- MCPath
  Inode <- MCInode
  NoInode <- MCNoInode
  GuestInode = {g1}
  Content = {"user", "probe"}
  Empty = ""
  Mode = {"0600"}
  Masked <- MCMasked
  LinkTarget = {}
  GuestOps = {"create", "unlink"}
  MaxGuestOps = 1
  InitEntry <- MCInitEntry
  InitInode <- MCInitInode
SYMMETRY Symmetry
INVARIANT TypeOK
INVARIANT LeavesNothing
INVARIANT ProbeVerdictIsRight
PROPERTY KeepsWhatWasThere
