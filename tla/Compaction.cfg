SPECIFICATION Spec

CONSTANTS
  Pushers = {p1, p2}
  Refs = {main, dev}
  Commits = {c0, c1, c2, d1}
  Ancestors <- MCAncestors
  Large <- MCLarge
  Main = main
  Trunk <- MCTrunk
  GC = GC
  Free = Free
  Settings <- MCSettings
  c0 = c0
  c1 = c1
  c2 = c2
  d1 = d1

SYMMETRY Symmetry

INVARIANTS
  Closed
  LFSKept

PROPERTIES
  TagsNotRewound
  PrunesAfterConsolidation

CHECK_DEADLOCK FALSE
