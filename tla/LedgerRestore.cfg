SPECIFICATION Spec
CONSTANTS
  None = None
  cache = cache
  archive = archive
  disc = disc
  Operations = {o1}
  Items <- OneItem
  Deletable <- OneItem
  Volume <- OneVolume
  Private <- PrivateBytes
  Allocated <- AllocatedBytes
  MaxGrowth = 4
  CoinBytes = 2
INVARIANTS RestorableWhileInTrash
