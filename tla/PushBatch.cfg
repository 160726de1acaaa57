SPECIFICATION FairSpec

CONSTANTS
  Clients = {k1, k2}
  Refs = {main, dev}
  Commits = {c0, c1, c2}
  Absent = Absent
  NoLease = NoLease
  Free = Free
  Ancestors <- MCAncestors
  Settings <- MCSettings
  c0 = c0
  c1 = c1
  c2 = c2
  k1 = k1
  k2 = k2
  main = main
  dev = dev

INVARIANTS
  OkIsPublished
  RollbackRestores
  LocksReturned

PROPERTIES
  UnracedIsFastForward
  UnracedKeepsLease
  BatchesAreAnswered

CHECK_DEADLOCK FALSE
