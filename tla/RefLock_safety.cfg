SPECIFICATION Spec
CONSTANTS
  c1 = c1
  c2 = c2
  t1 = t1
  t2 = t2
  t3 = t3
  Threads = {t1, t2, t3}
  Clients = {c1, c2}
  ClientOf <- MCClientOf
  Ids = {i1, i2, i3, i4, i5}
  TTL = 1
  Collector = Collector
  NoId = NoId
  Reserved = Reserved
  Faults = TRUE
SYMMETRY IdSymmetry
INVARIANTS
  TypeOK
  HeldLocksOwned
  MutexUnlessStolen
  TheftNeedsStaleRead
