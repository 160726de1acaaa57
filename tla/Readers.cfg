SPECIFICATION ReadersSpec

CONSTANTS
  Commits = {c0, c1, c2, d1}
  Ancestors <- MCAncestors
  Objects = {old, new, big}
  Tree <- MCTree
  Pointers = {big}
  Chains <- MCChains
  Settings <- MCSettings
  HydrateGraphs <- AnythingServed
  HydrateChains <- CompactionChains
  HydrateTips <- SomeTips
  c0 = c0
  c1 = c1
  c2 = c2
  d1 = d1
  old = old
  new = new
  big = big

INVARIANTS
  LocalIsClosed
  GapsAreShallow
  FetchedIsWhole
  HydratedIsWhole

PROPERTIES
  ImportsAfterBases
  WalksEnd

CHECK_DEADLOCK FALSE
