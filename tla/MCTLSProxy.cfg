SPECIFICATION FairSpec
CONSTANTS
  Clients = {c1, c2}
  Inside = {c1, c2}
  Admin = admin
  MaxStarts = 2
INVARIANT
  NothingOutlivesProxy
PROPERTY
  ProxyCloseEnds
CHECK_DEADLOCK FALSE
