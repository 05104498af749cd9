SPECIFICATION FairSpec
CONSTANTS
  None = None
  Sizes <- MCSizes
  Readers <- MCReaders
  Failing = {2}
  MaxRequests = 3
  MaxClosed = 1
  MaxResets = 1
INVARIANTS
  TimestampsMatchHistory
  EveryExchangeOnce
  PrintedInOrder
PROPERTY
  TrafficEnds
