SPECIFICATION PartsSpec
CONSTANTS
  None = None
  home = home
  app = app
  lib = lib
  lockFile = lockFile
  target = target
  disc = disc
  Paths <- TreePaths
  Roots <- TreeRoots
  Above <- TreeAbove
  Grant <- TreeGrant
  EventScope <- TreeIdentity
  Normal <- TreeIdentity
  LockTarget <- TreeLocks
  MaxVersion = 1
  MaxRows = 2
  ActiveScans = 2
  MaxBatch = 1
  Gaps = FALSE
  Lapses = {}
CONSTRAINT FewUnheard
INVARIANTS PendingAntichain ClaimDiscipline HiddenStaysHidden CoverageIsHonest
  ShapesAreHonest
PROPERTIES OnlyLooksDecide
