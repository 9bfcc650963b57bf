SPECIFICATION FairSpec
CONSTANTS
  c1 = c1
  c2 = c2
  Nobody = "nobody"
  Foreign = "foreign"
  malformed = malformed
  absent = absent
  TrimSpace <- MCTrimSpace
  ParseUint <- MCParseUint
  ParseDuration <- MCParseDuration
  Bad = malformed
  Absent = absent
  Process <- Daemon
  Call = {c1}
  Target <- OneTarget
  TooLarge <- BigRequest
  Request <- AnyRequest
  DaemonFile <- AnyFile
  Edited <- Revoked
  GuestTimeout = {0, 5}
  StartErrors = {"ENOENT", "EPERM"}
  MaxExits = 1
  MaxKills = 1
INVARIANT TypeOK
INVARIANT EffectIsAuthorized
INVARIANT HintIsRight
PROPERTY HandlersFinish
PROPERTY DoReturns
PROPERTY ConnectionsAreClosed
