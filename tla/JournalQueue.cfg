SPECIFICATION FairSpec
CONSTANTS
  None = None
  home = home
  app = app
  lib = lib
  lockFile = lockFile
  target = target
  disc = disc
  Paths <- DiscPaths
  Roots <- DiscRoots
  Above <- DiscAbove
  Grant <- DiscGrant
  EventScope <- DiscIdentity
  Normal <- DiscIdentity
  LockTarget <- TreeLocks
  MaxVersion = 1
  MaxRows = 1
  ActiveScans = 1
  MaxBatch = 1
  Gaps = TRUE
  Lapses = {}
INVARIANTS TypeOK HiddenIsOwedALook
PROPERTIES ScopesAreTaken
