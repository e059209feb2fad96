SPECIFICATION FairSpec
CONSTANTS
  Calls = {c1, c2, c3}
  Requests <- MCRequests
  write_buffer_size = 0
  kL0_CompactionTrigger = 2
  kL0_SlowdownWritesTrigger = 1
  kL0_StopWritesTrigger = 2
  MaxFileNumber = 14
  MaxCrashes = 0
  MaxMachineCrashes = 0
  MaxTorn = 1
  MaxFailures = 1
PROPERTY CallsReturn
CHECK_DEADLOCK FALSE
