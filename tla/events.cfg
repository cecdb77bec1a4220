SPECIFICATION FairSpec
CONSTANTS
  w = w
  web = web
  c1 = c1
  c2 = c2
  Workers = {w}
  Webs = {}
  Callers = {w}
  Claims = {c1}
  None = None
  Substitute = Substitute
  MaxConcurrent = 2
  MaxRuns = 5
  MaxAttempts = 3
  MaxMishaps = 2
INVARIANTS
  TypeOK
  AttemptRunsOnce
  SettledHasResult
  NothingLeftBehind
PROPERTIES
  SuccessKept
  ClaimSettles
CHECK_DEADLOCK FALSE
