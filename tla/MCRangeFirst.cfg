SPECIFICATION Spec
CONSTANTS
  Omitted = Omitted
  NULL = NULL
  MaxSafeInteger = 4
  TotalBytes = 3
  RangeHeaders <- MCRangeHeaders
INVARIANTS RangesRefusedBeforeObject
