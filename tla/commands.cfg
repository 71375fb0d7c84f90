SPECIFICATION Spec
CONSTANTS
  d = d
  e = e
  Registered <- Commands
  MaxInstances = 3
  SearchPaths <- Paths
  Installations <- Installed
  FuzzOptions <- FuzzCommandLines
  FuzzerNames <- Names
  TestCaseLists <- Files
  Readme <- ReadmeFiles
  Malformed <- BadFiles
  Signals = {6, 11}
  GenOptions <- GenCommandLines
  OldSeeds = {1, 3}
  SynthesisOptions <- SynthesisCommandLines
  FileSystems <- Storage
INVARIANTS FleetAsConfigured CalibrationExact SeedsAsAsked ScriptsByName
PROPERTY CommandEnds
CHECK_DEADLOCK FALSE
