SPECIFICATION Spec
CONSTANTS
  c1 = c1
  c2 = c2
  Nobody = "nobody"
  Foreign = "foreign"
  malformed = malformed
  absent = absent
  TrimSpace <- MCTrimSpace
  ParseUint <- MCParseUint
  ParseDuration <- MCParseDuration
  Bad = malformed
  Absent = absent
  Process <- Daemon
  Call = {c1}
  Target <- MCTarget
  TooLarge = {}
  Request <- OneRequest
  DaemonFile <- OnlyTokens
  Edited = {}
  GuestTimeout = {5}
  StartErrors = {"ENOENT"}
  MaxExits = 0
  MaxKills = 0
INVARIANT EnoentMeansSourceMissing
