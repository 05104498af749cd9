SPECIFICATION Spec
CONSTANTS
  None = None
  Policies <- MCPolicies
  MaxServed = 2
INVARIANT
  ShutdownNeverWaitsForPeer
