SPECIFICATION Spec
CONSTANTS
  Segment <- MCSegment
  Cwd <- MCCwd
  MountRoot <- MCMountRoot
  Token = {"secret"}
  MaxSrc = 4
  MaxDst = 2
INVARIANT HostAcceptsInside
INVARIANT GuestAcceptsInside
INVARIANT GuestAndHostAgree
