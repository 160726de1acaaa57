SPECIFICATION PartsSpec

CONSTANTS
  Sizes = {3, 5, 6}
  Chunks = {0, 2, 3}
  Attempts = 3
  Keeps = {0, 2, 3}
  Refs <- MCRefs
  MaxTag = 8
  IdLength = 3
  NoRef = NoRef
  Ids <- MCIds
  MaxInt64 = 4
  Entries <- MCEntries
  Wants <- MCWants
  Goroutines = {g1, g2}
  Keys = {k1, k2, k3, k4}
  Limit = 1
  Bound = 3
  Calls = {c1, c2}
  IndexTags = {refs}
  LockTags = {lock}
  BranchTags = {branch}
  NoCall = NoCall
  MaxRetries = 2
  g1 = g1
  g2 = g2
  k1 = k1
  k2 = k2
  k3 = k3
  k4 = k4

INVARIANTS
  ClosesWhole
  TagsAreApart
  NoFalseAbsence
  SizesAreRecorded
  StaysBounded
  OneShotSentOnce
  ReturnedOpen
  MetadataReadsFresh

PROPERTIES
  RefusalFallsBack
  UploadEnds

CHECK_DEADLOCK FALSE
