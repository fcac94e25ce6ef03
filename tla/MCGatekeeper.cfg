CONSTANTS
  Character <- MCCharacter
  Argvs <- MCArgvs
  SudoCommands <- MCSudoCommands
  Releases <- MCReleases
  RealBinary <- MCRealBinary
  Paths <- MCPaths
  Files <- MCFiles
  NoFile = "none"
  Disks <- MCDisks
  Contested <- MCContested
  MaxChanges = 2
SPECIFICATION Spec
INVARIANT OneStory
INVARIANT RunsIfAllowed
INVARIANT SudoRunIdentified
INVARIANT WordsReadBack
PROPERTY KeepsPromise
CHECK_DEADLOCK FALSE
