SPECIFICATION Spec
CONSTANTS
  None = None
  home = home
  app = app
  lib = lib
  lockFile = lockFile
  target = target
  disc = disc
  Paths <- OnePaths
  Roots <- TreeRoots
  Above <- OneAbove
  Grant <- OneGrant
  EventScope <- OneIdentity
  Normal <- OneIdentity
  LockTarget <- TreeLocks
  MaxVersion = 1
  MaxRows = 1
  ActiveScans = 2
  MaxBatch = 1
  Gaps = TRUE
  Lapses = {"unqueued"}
INVARIANTS HiddenIsOwedALook
