SPECIFICATION Spec
CONSTANTS
  w = w
  web = web
  c1 = c1
  c2 = c2
  Workers = {w}
  Webs = {web}
  Callers = {}
  Claims = {c1}
  None = None
  Substitute = Substitute
  MaxConcurrent = 2
  MaxRuns = 5
  MaxAttempts = 1
  MaxMishaps = 0
INVARIANTS
  OncePerEvent
CHECK_DEADLOCK FALSE
