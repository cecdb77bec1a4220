SPECIFICATION FairSpec
CONSTANTS
  w1 = w1
  w2 = w2
  web = web
  early = early
  late = late
  Workers = {w1}
  Webs = {web}
  Resets = {early, late}
  NoReset = NoReset
  NoMeta = NoMeta
  MAX_RESUME_ATTEMPTS = 2
  MaxMishaps = 2
  MaxAsked = 2
INVARIANTS
  TypeOK
  ResumesBounded
PROPERTIES
  PausedResumes
CHECK_DEADLOCK FALSE
