SPECIFICATION FairSpec
CONSTANTS
  Dirs <- MCDirs
  Files <- MCFiles
  Links <- MCLinks
  Root = "root"
  Target <- MCTarget
  Cases <- MCCases
  Requests <- MCRequests
  Writable <- UserDirs
  MaxSymlinkDepth = 2
  KernelLinks = 5
  Name <- MCName
  MaxTarget = 3
  MaxChanges = 2
INVARIANTS AgreesWithKernel BlockedByEveryName BlockedIsNeverAccepted
PROPERTY CheckEnds
CHECK_DEADLOCK FALSE
