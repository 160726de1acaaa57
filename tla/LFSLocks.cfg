SPECIFICATION Spec

CONSTANTS
  Users = {u1, u2}
  Paths = {p1, p2}
  Owners = {alice, bob}
  Nobody = Nobody
  Free = Free
  Settings <- MCSettings

SYMMETRY Symmetry

INVARIANTS
  PathsLockedOnce

PROPERTIES
  LocksLeaveByRelease

CHECK_DEADLOCK FALSE
