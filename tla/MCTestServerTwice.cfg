SPECIFICATION Spec
CONSTANTS
  a1 = a1
  a2 = a2
  h1 = h1
  Accepted = {a1}
  Handed = {h1}
  Admin = admin
  Handlers = {h1}
  Relaying = {a1}
  Crowds = {{a1, h1}}
  MaxStarts = 1
INVARIANT
  EveryReleaseLands
CHECK_DEADLOCK FALSE
