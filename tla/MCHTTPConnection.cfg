SPECIFICATION FairSpec
CONSTANTS
  None = None
  Policies <- MCPolicies
  MaxServed = 3
INVARIANTS
  TypeOK
  OneExchangePerRequest
  PublishedAfterLoop
  EventTellsReset
  AnnouncedClose
PROPERTIES
  EventIsFinal
  EventCountsRequests
  NoRequestAfterClose
  ShutdownPublishes
  CancelledRunEnds
