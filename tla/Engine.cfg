SPECIFICATION PartsSpec
CONSTANTS
  None = None
  Worker = Worker
  Nobody = Nobody
  c1 = c1
  c2 = c2
  c3 = c3
  copy = copy
  keeper = keeper
  t1 = t1
  t2 = t2
  r1 = r1
  r2 = r2
  Callers = {c1, c2}
  Files = {copy, keeper}
  Tokens = {t1, t2}
  May <- DeskRoles
  MaxVersion = 1
  MaxCancels = 1
  MaxGrants = 1
  MaxChecks = 1
  Changing = {copy}
  Keepable = {keeper}
  Preparable = {keeper}
INVARIANTS GateIsSound DuplicatesAreSafe LocksAreSound RequestIsKept
PROPERTIES CancelIsFinal CompletionIsEarned
CHECK_DEADLOCK FALSE
