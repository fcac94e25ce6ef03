SPECIFICATION Spec
CONSTANTS
  Names <- MCNames
  Root <- MCRoot
  Disk <- MCDisk
  HostMounts <- MCHostMounts
  Others <- BusyOthers
  Jobs <- AllJobs
  Contested <- BusyJobs
  MaxDepth = 3
  LastCap = 2
  MaxSwaps = 4
INVARIANTS MasksStay ReadOnlyStays HeldArgumentsStay Confined UndisturbedSetupSucceeds
CHECK_DEADLOCK FALSE
