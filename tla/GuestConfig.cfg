SPECIFICATION Spec
CONSTANTS
  i1 = i1
  i2 = i2
  c1 = c1
  malformed = malformed
  absent = absent
  half = half
  TrimSpace <- MCTrimSpace
  ParseUint <- MCParseUint
  ParseDuration <- MCParseDuration
  Bad = malformed
  Absent = absent
  Half = half
  Installer = {i1}
  Command = {c1}
  TomlFile <- MCTomlFile
  LegacyFile <- MCLegacyFile
  Given <- MCGiven
  Template <- MCTemplate
  Faults = {"stat", "mkdir", "create", "write", "chmod", "close", "rename", "remove"}
  MaxEdits = 2
  MaxDeaths = 1
INVARIANT TypeOK
INVARIANT TomlIsWhole
INVARIANT UsesOneMoment
INVARIANT MalformedStops
INVARIANT StopsOnlyIfMalformed
INVARIANT RefusesWhatStays
INVARIANT InitLeavesNothing
