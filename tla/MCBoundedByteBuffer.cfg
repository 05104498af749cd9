SPECIFICATION Spec
CONSTANTS
  None = None
  Limits <- MCLimits
  CoalesceSizes <- MCCoalesceSizes
  MaxWrite = 5
  MaxBytes = 11
INVARIANT
  HoldsLittleMore
PROPERTY
  KeepsTail
