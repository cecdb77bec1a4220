SPECIFICATION FairSpec
CONSTANTS
  p1 = p1
  p2 = p2
  q1 = q1
  q2 = q2
  Webs = {p1, p2}
  Requests = {q1, q2}
  Balance <- OneMayMove
  Targets = {q1, q2}
  None = None
  MaxCancels = 1
  MaxInputs = 1
  MaxMishaps = 1
INVARIANTS
  TypeOK
  RunKeepsItsPlace
  CancelHitsTarget
  InputsKept
PROPERTIES
  TranscriptHasOneWriter
  
CHECK_DEADLOCK FALSE
