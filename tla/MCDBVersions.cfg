SPECIFICATION Spec
CONSTANTS
  Keys = {1, 2, 3}
  ValueTypes = {"value", "deletion"}
  Readers = {r1}
  Ranges <- MCRanges
  Settings <- MCSettings
  kNumLevels = 3
  kMaxMemCompactLevel = 1
  kL0_CompactionTrigger = 2
  MaxBytesForLevel <- MCLimits
  GrandParentFactor = 1
  ExpandFactor = 1
  MaxSequence = 4
  MaxFileNumber = 7
  MaxManual = 1
INVARIANT TypeOK
INVARIANT DisjointUnlessManual
INVARIANT NeverHop
INVARIANT ReadsNewest
INVARIANT VisibleKept
INVARIANT LiveFilesOnDisk
CHECK_DEADLOCK FALSE
