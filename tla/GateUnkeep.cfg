SPECIFICATION Spec
CONSTANTS
  c1 = c1
  c2 = c2
  Worker = Worker
  Nobody = Nobody
  Callers = {c1, c2}
  ActiveScans = 2
  May <- Anything
INVARIANTS NoStrandedWork
