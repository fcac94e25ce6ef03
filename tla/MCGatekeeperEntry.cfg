CONSTANTS
  Character <- MCCharacter
  Argvs <- SudoArgvs
  SudoCommands <- SudoOnly
  Releases <- NewRelease
  RealBinary <- MCRealBinary
  Paths <- MCPaths
  Files <- MCFiles
  NoFile = "none"
  Disks <- MCDisks
  Contested <- SudoArgvs
  MaxChanges = 0
SPECIFICATION Spec
INVARIANT EntryPointRuns
CHECK_DEADLOCK FALSE
