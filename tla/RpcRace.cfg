SPECIFICATION Spec
CONSTANTS
  c1 = c1
  c2 = c2
  Nobody = "nobody"
  Foreign = "foreign"
  malformed = malformed
  absent = absent
  TrimSpace <- MCTrimSpace
  ParseUint <- MCParseUint
  ParseDuration <- MCParseDuration
  Bad = malformed
  Absent = absent
  Process <- Daemon
  Call = {c1, c2}
  Target <- OneTarget
  TooLarge = {}
  Request <- BothWays
  DaemonFile <- Usable
  Edited = {}
  GuestTimeout = {5}
  StartErrors = {}
  MaxExits = 1
  MaxKills = 1
SYMMETRY Symmetry
INVARIANT OkMeansDone
INVARIANT RefusalIsFinal
