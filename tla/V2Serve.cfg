SPECIFICATION FairSpec

CONSTANTS
  Commits = {b, c, a, m, d}
  Ancestors <- MCAncestors
  Parents <- MCParents
  Recent <- MCRecent
  Blobs = {x, y}
  Tree <- MCTree
  Tags = {v1}
  Peeled <- MCPeeled
  Refs <- MCRefs
  RefOrder <- MCRefOrder
  NoTag = NoTag
  NoRef = NoRef
  Settings <- MCSettings
  c = c
  a = a
  b = b
  m = m
  d = d
  x = x
  y = y
  v1 = v1

INVARIANTS
  HistoryIsWhole
  SliceIsAsAsked

PROPERTIES
  RefusalsAreHonest
  RequestsEnd

CHECK_DEADLOCK FALSE
