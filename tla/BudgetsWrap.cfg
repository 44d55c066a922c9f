SPECIFICATION Spec
CONSTANTS
  MaxU32 = 3
  MaxU64 = 3
  OverflowChecks = FALSE
  MaxFaults = 1
  Ceiling <- SmallCeiling
  SpendCap = 5
PROPERTY ChargesAreMonotone
CHECK_DEADLOCK FALSE
