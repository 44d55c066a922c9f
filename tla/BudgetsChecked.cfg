SPECIFICATION Spec
CONSTANTS
  MaxU32 = 3
  MaxU64 = 3
  OverflowChecks = TRUE
  MaxFaults = 1
  Ceiling <- SmallCeiling
  SpendCap = 5
INVARIANTS GradeIsTrueSum CheckedBuildKeepsContract HeadroomIsExact
PROPERTY OverspendingIsPermanent
CHECK_DEADLOCK FALSE
