SPECIFICATION Spec
CONSTANTS
  Tasks = {t1, t2, t3}
  Origins = {o1, o2}
  Conns = {c1, c2, c3}
  None = None
  MaxPerOrigin = 2
  MaxIdle = 2
  IdleTimeout = 0
  MaxNow = 1
  MaxRequests = 1
SYMMETRY Symmetry
INVARIANTS
  TypeOK
  SlotAccounting
  CapRespected
  ExclusiveTransports
  RegisteredWhileUsed
  NoLostWakeup
  NoDesyncedReuse
PROPERTIES
  KeepsPromise
  EvictsOldest
