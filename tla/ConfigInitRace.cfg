SPECIFICATION Spec
CONSTANTS
  i1 = i1
  i2 = i2
  c1 = c1
  malformed = malformed
  absent = absent
  half = half
  TrimSpace <- MCTrimSpace
  ParseUint <- MCParseUint
  ParseDuration <- MCParseDuration
  Bad = malformed
  Absent = absent
  Half = half
  Installer = {i1, i2}
  Command = {}
  TomlFile <- SomeToml
  LegacyFile <- SomeLegacy
  Given <- MCGiven
  Template <- MCTemplate
  Faults = {}
  MaxEdits = 1
  MaxDeaths = 0
PROPERTY OverwritesOnlyByForce
