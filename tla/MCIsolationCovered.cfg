SPECIFICATION Spec
CONSTANTS
  Names <- MCNames
  Root <- MCRoot
  Disk <- MCDisk
  HostMounts <- MCHostMounts
  Others <- BusyOthers
  Jobs <- QuietJobs
  Contested <- NoJobs
  MaxDepth = 3
  LastCap = 2
  MaxSwaps = 3
INVARIANTS BlockedAlwaysDenied
CHECK_DEADLOCK FALSE
