SPECIFICATION FairParts
CONSTANTS
  None = None
  r1 = r1
  j1 = j1
  j2 = j2
  s1 = s1
  Jobs = {j1, j2}
  Supervisors = {s1}
  QueuedScans = 1
  QueuedFrames = 2
INVARIANTS StreamIsOrdered
PROPERTIES JobsEnd RequestsEnd
CHECK_DEADLOCK FALSE
