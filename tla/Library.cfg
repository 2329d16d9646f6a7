SPECIFICATION PartsSpec
SYMMETRY OperationSymmetry
CONSTANTS
  r1 = r1
  i1 = i1
  i2 = i2
  None = None
  cache = cache
  archive = archive
  disc = disc
  Operations = {o1, o2, o3}
  Items <- TwoItems
  Deletable <- TwoItems
  Volume <- OneVolume
  Private <- PrivateBytes
  Allocated <- AllocatedBytes
  MaxGrowth = 4
  CoinBytes = 2
CONSTRAINT FewOperations
INVARIANTS TypeOK BooksAgree CreditIsEarned LeftoversAreNamed
  RestorableIsInTrash EventsArrive ViewIsHonest ScopesServe
PROPERTIES CounterSpec HistoryIsFinal ViewMovesForward
CHECK_DEADLOCK FALSE
