SPECIFICATION FairSpec
CONSTANTS
  Tasks = {t1, t2, t3}
  Origins = {o1}
  Conns = {c1, c2, c3}
  None = None
  MaxPerOrigin = 1
  MaxIdle = 1
  IdleTimeout = None
  MaxNow = 0
  MaxRequests = 1
PROPERTIES
  RequestsEnd
  ClosePoolEnds
