SPECIFICATION Spec
CONSTANTS
  None = None
  Scenarios <- MCScenarios
  Limits <- MCLimits
  MaxReads <- MCReads
INVARIANTS
  EveryByteOnce
  
CHECK_DEADLOCK FALSE
