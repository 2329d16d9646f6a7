SPECIFICATION Spec
CONSTANTS
  None = None
  l1 = l1
  l2 = l2
  l3 = l3
  l4 = l4
  s1 = s1
  s2 = s2
INVARIANTS AnswersWereThere MeasurementIsTrue ListedOnce HelperIsUnderstood
  ScanIsThorough EvidenceIsSound
PROPERTIES NothingIsOverlooked
CHECK_DEADLOCK FALSE
