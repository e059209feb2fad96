SPECIFICATION Spec
CONSTANTS
  Keys = {1}
  ValueTypes = {"value", "deletion"}
  Readers = {}
  Ranges <- MCRanges
  Settings <- MCSplitSettings
  kNumLevels = 3
  kMaxMemCompactLevel = 1
  kL0_CompactionTrigger = 1
  MaxBytesForLevel <- MCSmallLimits
  GrandParentFactor = 1
  ExpandFactor = 25
  MaxSequence = 2
  MaxFileNumber = 6
  MaxManual = 1
INVARIANT NeverHop
CHECK_DEADLOCK FALSE
