SPECIFICATION Spec

CONSTANTS
  Writers = {w1, w2}
  Refs = {main, dev}
  Commits = {c1, c2}
  Absent = Absent
  NoHead = NoHead
  Free = Free
  MaxAttempts = 2
  Settings <- MCSettings

SYMMETRY Symmetry

INVARIANTS
  HeadIsPublished
  MirrorAgrees

PROPERTIES
  UpdatesAreAtomic

CHECK_DEADLOCK FALSE
