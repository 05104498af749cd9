SPECIFICATION Spec
CONSTANTS
  None = None
  Sizes <- MCSizes
  Readers <- MCReaders
  Failing = {2}
  MaxRequests = 3
  MaxClosed = 1
  MaxResets = 1
INVARIANT
  NoStrandedConsumer
