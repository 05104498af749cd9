SPECIFICATION FairSpec
CONSTANTS
  a1 = a1
  a2 = a2
  h1 = h1
  Accepted = {a1, a2}
  Handed = {h1}
  Admin = admin
  Handlers = {a1}
  Relaying = {a2, h1}
  Crowds <- MCCrowds
  MaxStarts = 2
INVARIANTS
  NoUpstreamOutlivesServer
  NoConnectionForgotten
PROPERTY
  AcloseEnds
CHECK_DEADLOCK FALSE
