SPECIFICATION FairSpec
CONSTANTS
  c1 = c1
  c2 = c2
  Worker = Worker
  Nobody = Nobody
  Callers = {c1, c2}
  ActiveScans = 1
  May <- Anything
INVARIANTS MutationIsAlone SleepersAreWoken
PROPERTIES MutationsAreLetIn CancelEndsWorker
