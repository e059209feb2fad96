SPECIFICATION Spec
CONSTANTS
  Calls = {c1, c2, c3}
  Requests <- MCRequests
  write_buffer_size = 1
  kL0_CompactionTrigger = 2
  kL0_SlowdownWritesTrigger = 1
  kL0_StopWritesTrigger = 2
  MaxFileNumber = 11
  MaxCrashes = 1
  MaxMachineCrashes = 1
  MaxTorn = 0
  MaxFailures = 1
SYMMETRY MCSymmetry
INVARIANT TypeOK
INVARIANT AckedVisible
INVARIANT ManifestFilesExist
INVARIANT SequencesUnique
PROPERTY KeepsPromises
CHECK_DEADLOCK FALSE
